---- MODULE Spec2Model ----
(***************************************************************************)
(* A model of the klonk execution engine: the transition selection of a    *)
(* StateNode (StateNode.next), the reachable-state traversal of a Machine  *)
(* (Machine.getAllStates) and the run loop of a Machine (Machine.run) with *)
(* its four run modes, the stopAfter cap and the per-node retry policy.    *)
(* Playlist.run, with its skip, validation and retry handling, is modelled *)
(* next to it, as a specification of its own over the same variables.      *)
(*                                                                         *)
(* Machine.run is an async function.  Its position between two awaits is   *)
(* the variable pc; one action models the code from one await to the next. *)
(***************************************************************************)
EXTENDS Integers, Sequences, FiniteSets, TLC

\* ------------------------------------------------------------------ bounds

\* A run is followed for at most MaxEntries playlist runs.
MaxEntries == 4

\* options.stopAfter is undefined or one of 0..MaxStopAfter.
MaxStopAfter == 2

\* StateNode.retryLimit(n) is called with n in 0..MaxRetryLimit.
MaxRetryLimit == 1

\* The count of retry sleeps of a run is kept up to MaxSleeps (it saturates).
MaxSleeps == 2

\* StateNode.next is explored on nodes of at most MaxTransitions transitions.
MaxTransitions == 2

\* A Playlist has at most MaxBindings bundles.
MaxBindings == 2

\* A Machine is built with at most MaxStates calls of addState.
MaxStates == 2

\* At most MaxPlaylists Playlist objects are made.
MaxPlaylists == 3

\* ------------------------------------------------------- program constants

\* StateNode.retry = false (preventRetry()).
RetryDisabled == -1

\* StateNode.maxRetries = false (no retry limit).
NoLimit == -1

\* options.stopAfter === undefined.
NoStopAfter == -1

\* Transition.weight === undefined.
NoWeight == -1

\* The retry delay a StateNode is constructed with.
DefaultRetryDelay == 1000

\* A property of the options of Playlist.run that is not given (undefined).
Undefined == -2

\* The retryDelay Playlist.run takes when options gives none.
PlaylistDefaultRetryDelay == 1000

\* A retryDelay given in the options ({ retryDelay: 100 }).
GivenRetryDelay == 100

\* ------------------------------------------------------------ configuration

\* The idents of the states of the machine; "A" is added with {initial: true}.
Nodes == {"A", "B", "C"}

\* What StateNode.next returns when no transition is taken (null).
NoNode == "null"

\* RunOptions.mode.
Modes == {"any", "leaf", "roundtrip", "infinitely"}

\* The transition conditions of the model: "T" is async () => true, "F" is
\* async () => false, "R" is async (state) => state.ready === true and "X" is a
\* condition that throws.
Conds == {"T", "F", "R", "X"}

\* The conditions used by the machines that Machine.run is explored on.
RunConds == {"T", "F", "R"}

Tr(to, cond, weight) == [to |-> to, cond |-> cond, weight |-> weight]

\* A node of a generic machine has no transition or one transition.
OneLists == {<<>>} \cup {<<Tr(to, c, 1)>> : to \in Nodes, c \in RunConds}

GenericGraphs == [Nodes -> OneLists]

\* Machines of the test suite with two transitions on one node.
LeafIgnoresRoundtripGraph ==
    [n \in Nodes |-> IF n = "A" THEN <<Tr("B", "T", 2), Tr("A", "T", 1)>> ELSE <<>>]

ContinuesThroughRoundtripGraph ==
    [n \in Nodes |->
        CASE n = "A" -> <<Tr("B", "T", 1)>>
          [] n = "B" -> <<Tr("C", "R", 2), Tr("A", "T", 1)>>
          [] OTHER   -> <<>>]

LoopBackGraph ==
    [n \in Nodes |->
        CASE n = "A" -> <<Tr("B", "T", 2), Tr("C", "F", 1)>>
          [] n = "B" -> <<Tr("A", "T", 1)>>
          [] OTHER   -> <<>>]

\* A machine whose second declared transition outweighs the first.
WeightOrderGraph ==
    [n \in Nodes |->
        CASE n = "A" -> <<Tr("A", "T", 1), Tr("C", "R", 2)>>
          [] n = "B" -> <<Tr("C", "R", 1), Tr("A", "R", 1)>>
          [] OTHER   -> <<>>]

\* The machine of the getAllStates test: two transitions from start to loop.
ParallelEdgesGraph ==
    [n \in Nodes |->
        IF n = "A" THEN <<Tr("B", "T", 1), Tr("B", "T", 2)>> ELSE <<>>]

TestGraphs ==
    {LeafIgnoresRoundtripGraph, ContinuesThroughRoundtripGraph, LoopBackGraph,
     WeightOrderGraph, ParallelEdgesGraph}

Graphs == GenericGraphs \cup TestGraphs

\* The retry settings of one node: as constructed, after preventRetry(), or
\* after retryLimit(n).
NodePolicies ==
    {[retry |-> RetryDisabled, maxRetries |-> NoLimit]}
    \cup {[retry |-> DefaultRetryDelay, maxRetries |-> m] :
             m \in {NoLimit} \cup (0..MaxRetryLimit)}

StopAfters == {NoStopAfter} \cup (0..MaxStopAfter)

\* The idents of the tasks added to a Playlist.
Idents == {"t1", "t2"}

\* Playlist.bundles, as the idents of the tasks, in the order of addTask.
BundleLists == UNION {[1..n -> Idents] : n \in 0..MaxBindings}

\* A Playlist with two bundles of one ident and a bundle in between.
CollidingBundles == <<"t1", "t2", "t1">>

\* PlaylistRunOptions: retryDelay is not given, false or a number; maxRetries
\* is not given, false or a number.
OptionsSet ==
    [retryDelay : {Undefined, RetryDisabled, GivenRetryDelay},
     maxRetries : {Undefined, NoLimit} \cup (0..MaxRetryLimit)]

\* run(source): options = {}.
NoOptions == [retryDelay |-> Undefined, maxRetries |-> Undefined]

\* A task of the explored runs fails at most MaxFailures times in one bundle.
MaxFailures == MaxRetryLimit + 2

\* const outputs = {}: no ident has an entry.
NoOutputs == [id \in Idents |-> "absent"]

\* The source objects: what the source holds when run is called, and what it
\* holds after the caller has changed it.
Sources == {"s0", "s1"}

\* No bundle.builder has been called.
NoInput == "none"

\* run has thrown nothing.
NoError == [kind |-> "none", task |-> "none"]

\* Workflow.triggers, as the idents of the triggers, in the order of addTrigger.
Triggers == <<"a", "b">>

TriggerIdents == {Triggers[k] : k \in 1..Len(Triggers)}

MaxQueueSize == 2

\* The queueSize given to the constructor of a Trigger.
QueueSizes == 0..MaxQueueSize

\* At most MaxEvents events are emitted, and poll is called at most MaxPolls
\* times from outside a Workflow; a Workflow schedules at most MaxTicks ticks.
MaxEvents == 3

MaxPolls == 3

MaxTicks == 2

\* { triggerIdent, data }: the event pushEvent makes of data.
Event(t, data) == [triggerIdent |-> t, data |-> data]

\* poll returns null.
NoEvent == Event("null", 0)

\* -------------------------------------------------------------------- state

VARIABLES
    transitions,      \* StateNode.transitions of every node, after finalize
    retry,            \* StateNode.retry of every node
    maxRetries,       \* StateNode.maxRetries of every node
    initialState,     \* Machine.initialState
    mode,             \* options.mode of the run
    stopAfter,        \* options.stopAfter of the run
    pc,               \* the position of Machine.run
    current,          \* run: current
    next,             \* run: next, the result of the last current.next(stateData)
    retries,          \* run: retries
    transitionsCount, \* run: transitionsCount
    visitedIdents,    \* run: visitedIdents
    allStates,        \* run: allStates
    log,              \* stateData.log: the playlists run, in order
    ready,            \* stateData.ready
    stopReason,       \* the reason the run logged when it returned
    retrySleeps,      \* the sleeps of the retry loop (saturating at MaxSleeps)
    intervalSleeps,   \* the sleeps between the cycles of 'infinitely' mode
    evalAt            \* history: where current.next has been called

\* The state of one Playlist and of one call of its run.
VARIABLES
    bundles,          \* Playlist.bundles: the ident of the task of every bundle
    finalizer,        \* whether Playlist.finalizer is set
    options,          \* the options argument of Playlist.run
    errorCarried,     \* whether the failed Results of the tasks carry an error
    plPc,             \* the position of Playlist.run
    index,            \* run: the position of the for loop in bundles
    outputs,          \* run: outputs, by ident
    taskResult,       \* run: result, the last Result of bundle.task.run
    taskRetries,      \* run: retries
    calls,            \* history: the calls made by run, in order
    thrown,           \* the error run has thrown
    playlists,        \* the Playlist objects made by new Playlist and addTask
    source,           \* what the source object holds
    input             \* run: input, what the builder of the bundle returned

playlistVars ==
    <<bundles, finalizer, options, errorCarried, plPc, index, outputs,
      taskResult,
      taskRetries, calls, thrown, playlists, source, input>>

machineVars == <<transitions, retry, maxRetries, initialState, mode, stopAfter>>

\* The variables of a call of Machine.run.
runVars ==
    <<pc, current, next, retries, transitionsCount, visitedIdents, allStates, log,
      ready, stopReason, retrySleeps, intervalSleeps, evalAt>>

\* The state of a Machine that is being built.
VARIABLES
    statesToCreate,   \* Machine.statesToCreate: the nodes added, in order
    finalized,        \* Machine.finalized
    identOf,          \* StateNode.ident of every node
    tempTransitions,  \* StateNode.tempTransitions of every node
    identAssigned,    \* whether Machine.ident has been set
    finalizeError     \* the error the last call of finalize has thrown

buildVars ==
    <<statesToCreate, finalized, identOf, tempTransitions, identAssigned,
      finalizeError>>

\* The state of the Triggers and of a Workflow that polls them.
VARIABLES
    queueSize,        \* EventQueue.size of every trigger
    queue,            \* EventQueue.queue of every trigger
    emitted,          \* the number of events emitted: the data of the last one
    polled,           \* history: the calls of poll, in order
    workflow,         \* whether the Workflow has a playlist, start a callback
    wfPc,             \* the position of Workflow.start and runTick
    wfIndex,          \* runTick: the position of the for loop in triggers
    wfEvent,          \* runTick: event
    handled,          \* history: the events the playlist was run for
    ticks             \* the number of calls of setTimeout(runTick, interval)

workflowVars ==
    <<queueSize, queue, emitted, polled, workflow, wfPc, wfIndex, wfEvent,
      handled, ticks>>

vars == <<machineVars, runVars, playlistVars, buildVars, workflowVars>>

\* No Workflow is started and no Trigger emits.
WorkflowIdle ==
    /\ queueSize = [t \in TriggerIdents |-> 1]
    /\ queue = [t \in TriggerIdents |-> <<>>]
    /\ emitted = 0
    /\ polled = <<>>
    /\ workflow = [playlist |-> FALSE, callback |-> FALSE]
    /\ wfPc = "idle"
    /\ wfIndex = 0
    /\ wfEvent = NoEvent
    /\ handled = <<>>
    /\ ticks = 0

\* ------------------------------------------------------------ StateNode.next

\* The outcome of awaiting t.condition(data).
CondResult(cond, data) ==
    CASE cond = "T" -> "true"
      [] cond = "F" -> "false"
      [] cond = "R" -> IF data THEN "true" ELSE "false"
      [] OTHER      -> "throw"

\* t.weight ?? 0
WeightOf(t) == IF t.weight = NoWeight THEN 0 ELSE t.weight

CompareDeclarationOrder(ts, a, b) == a - b

\* The comparator of the sort: (b.t.weight ?? 0) - (a.t.weight ?? 0) || a.i - b.i
Compare(ts, a, b) ==
    IF WeightOf(ts[b]) - WeightOf(ts[a]) # 0
    THEN WeightOf(ts[b]) - WeightOf(ts[a])
    ELSE a - b

\* The position of transition i in the sorted array.
Rank(ts, i) == 1 + Cardinality({j \in 1..Len(ts) : Compare(ts, j, i) < 0})

\* [...transitions].map((t, i) => ({t, i})).sort(comparator)
Sorted(ts) == [k \in 1..Len(ts) |-> ts[CHOOSE i \in 1..Len(ts) : Rank(ts, i) = k]]

\* The for loop of next: the target of the first transition whose condition
\* is true; a condition that throws is caught and the loop goes on.
RECURSIVE FirstMatch(_, _, _)
FirstMatchAbortsOnThrow(sorted, k, data) ==
    IF k > Len(sorted) THEN NoNode
    ELSE IF CondResult(sorted[k].cond, data) = "true" THEN sorted[k].to
    ELSE IF CondResult(sorted[k].cond, data) = "throw" THEN "threw"
    ELSE FirstMatch(sorted, k + 1, data)

FirstMatch(sorted, k, data) ==
    IF k > Len(sorted) THEN NoNode
    ELSE IF CondResult(sorted[k].cond, data) = "true" THEN sorted[k].to
    ELSE FirstMatch(sorted, k + 1, data)

\* node.next(stateData)
NextOf(node, data) == FirstMatch(Sorted(transitions[node]), 1, data)

\* ------------------------------------------------------ Machine.getAllStates

\* The targets of ts that are not visited, in order (the inner for loop).
RECURSIVE Unvisited(_, _)
Unvisited(ts, visited) ==
    IF ts = <<>> THEN <<>>
    ELSE IF Head(ts).to \in visited THEN Unvisited(Tail(ts), visited)
    ELSE <<Head(ts).to>> \o Unvisited(Tail(ts), visited)

RECURSIVE GetAllStatesLoopNoPopCheck(_, _, _)
GetAllStatesLoopNoPopCheck(stack, visited, result) ==
    IF stack = <<>> THEN result
    ELSE LET node == stack[Len(stack)]
             rest == SubSeq(stack, 1, Len(stack) - 1)
         IN  GetAllStatesLoopNoPopCheck(
                 rest \o Unvisited(transitions[node], visited \cup {node}),
                 visited \cup {node}, Append(result, node))

\* The while loop over the stack.
RECURSIVE GetAllStatesLoop(_, _, _)
GetAllStatesLoop(stack, visited, result) ==
    IF stack = <<>> THEN result
    ELSE LET node == stack[Len(stack)]
             rest == SubSeq(stack, 1, Len(stack) - 1)
         IN  IF node \in visited
             THEN GetAllStatesLoop(rest, visited, result)
             ELSE GetAllStatesLoop(rest \o Unvisited(transitions[node], visited \cup {node}),
                                   visited \cup {node}, Append(result, node))

GetAllStates == GetAllStatesLoop(<<initialState>>, {}, <<>>)

\* ---------------------------------------------------------------- Machine.run

\* !current.transitions || current.transitions.length === 0
IsLeaf(node) == Len(transitions[node]) = 0

StopsOnLeafNever(m) == FALSE

StopsOnLeafAlways(m) == TRUE

\* The leaf stop: options.mode !== 'infinitely'
StopsOnLeaf(m) == m # "infinitely"

StopsOnRoundtripAnyOnly(m) == m = "any"

\* The roundtrip stop: options.mode !== 'infinitely'
StopsOnRoundtrip(m) == m # "infinitely"

StopAfterReachedStrict(count) == stopAfter # NoStopAfter /\ count > stopAfter

\* options.stopAfter !== undefined && transitionsCount >= options.stopAfter
StopAfterReached(count) == stopAfter # NoStopAfter /\ count >= stopAfter

\* visitedIdents.size >= allStates.length, in mode 'any'
AllVisited(visited) == mode = "any" /\ Cardinality(visited) >= Len(allStates)

\* current.maxRetries && retries >= current.maxRetries: a limit of 0 is no limit
RetriesExhaustedTruthy(node, r) ==
    maxRetries[node] # NoLimit /\ maxRetries[node] # 0 /\ r >= maxRetries[node]

\* current.maxRetries !== false && retries >= current.maxRetries
RetriesExhausted(node, r) == maxRetries[node] # NoLimit /\ r >= maxRetries[node]

Min(a, b) == IF a < b THEN a ELSE b

\* return stateData, with the reason the code logs
Return(reason) ==
    /\ pc' = "done"
    /\ stopReason' = reason

\* The code after a non-null next: the roundtrip stop, or the move to the
\* target, whose playlist is awaited next.
Resolved(n) ==
    IF n = initialState /\ StopsOnRoundtrip(mode)
    THEN Return("roundtrip") /\ UNCHANGED current
    ELSE /\ current' = n
         /\ pc' = "playlist"
         /\ UNCHANGED stopReason

\* A Machine after finalize: nothing is left to create, the idents are those
\* of the registry and every tempTransitions is undefined.
Built ==
    /\ statesToCreate = <<>>
    /\ finalized = TRUE
    /\ identOf = [n \in Nodes |-> n]
    /\ tempTransitions = [n \in Nodes |-> <<>>]
    /\ identAssigned = TRUE
    /\ finalizeError = "none"

\* A Playlist that is not run.
PlaylistIdle ==
    /\ bundles = <<>>
    /\ finalizer = FALSE
    /\ options = NoOptions
    /\ errorCarried = TRUE
    /\ plPc = "idle"
    /\ index = 0
    /\ outputs = NoOutputs
    /\ taskResult = "none"
    /\ taskRetries = 0
    /\ calls = <<>>
    /\ thrown = NoError
    /\ source = "s0"
    /\ input = NoInput
    /\ playlists = <<>>

Init ==
    /\ WorkflowIdle
    /\ transitions \in Graphs
    /\ \E n \in Nodes, p \in NodePolicies :
          /\ retry = [m \in Nodes |-> IF m = n THEN p.retry ELSE DefaultRetryDelay]
          /\ maxRetries = [m \in Nodes |-> IF m = n THEN p.maxRetries ELSE NoLimit]
    /\ initialState = "A"
    /\ mode \in Modes
    /\ stopAfter \in StopAfters
    /\ pc = "idle"
    /\ current = NoNode
    /\ next = NoNode
    /\ retries = 0
    /\ transitionsCount = 0
    /\ visitedIdents = {}
    /\ allStates = <<>>
    /\ log = <<>>
    /\ ready = FALSE
    /\ stopReason = "none"
    /\ retrySleeps = 0
    /\ intervalSleeps = 0
    /\ evalAt = {}
    /\ PlaylistIdle
    /\ Built

\* throw new Error(...) in run: the promise of run is rejected.
Reject(reason) ==
    /\ pc' = "rejected"
    /\ stopReason' = reason

RunStartOneShot ==
    /\ pc = "idle"
    /\ finalized
    /\ finalized' = FALSE
    /\ allStates' = GetAllStates
    /\ visitedIdents' = {}
    /\ transitionsCount' = 0
    /\ IF stopAfter # NoStopAfter /\ stopAfter = 0
       THEN Return("stopAfter") /\ UNCHANGED current
       ELSE /\ current' = initialState
            /\ pc' = "playlist_initial"
            /\ UNCHANGED stopReason
    /\ UNCHANGED <<workflowVars, statesToCreate, identOf, tempTransitions, identAssigned,
                   finalizeError, playlistVars, machineVars, next, retries, log,
                   ready, retrySleeps, intervalSleeps, evalAt>>

\* run, up to the await of the initial state's playlist: the throws for a
\* machine that is not finalized or has no initial state, then getAllStates
\* and the stop for stopAfter 0.
RunStart ==
    /\ pc = "idle"
    /\ IF ~finalized
       THEN /\ Reject("Cannot run a machine that is not finalized.")
            /\ UNCHANGED <<current, allStates, visitedIdents, transitionsCount>>
       ELSE IF initialState = NoNode
       THEN /\ Reject("Cannot run a machine without an initial state.")
            /\ UNCHANGED <<current, allStates, visitedIdents, transitionsCount>>
       ELSE /\ allStates' = GetAllStates
            /\ visitedIdents' = {}
            /\ transitionsCount' = 0
            /\ IF stopAfter # NoStopAfter /\ stopAfter = 0
               THEN Return("stopAfter") /\ UNCHANGED current
               ELSE /\ current' = initialState
                    /\ pc' = "playlist_initial"
                    /\ UNCHANGED stopReason
    /\ UNCHANGED <<workflowVars, buildVars, playlistVars, machineVars, next, retries, log, ready, retrySleeps,
                   intervalSleeps, evalAt>>

\* await current.playlist.run(stateData) for the initial state, and the code
\* up to the loop.  The playlist may change stateData; it may throw, and then
\* run rejects.
PlaylistRunInitial ==
    /\ pc = "playlist_initial"
    /\ log' = Append(log, current)
    /\ \E threw \in BOOLEAN :
          IF threw
          THEN /\ pc' = "rejected"
               /\ UNCHANGED <<ready, transitionsCount, visitedIdents, stopReason>>
          ELSE /\ ready' \in BOOLEAN
               /\ transitionsCount' = 1
               /\ visitedIdents' = visitedIdents \cup {current}
               /\ IF StopAfterReached(1)
                  THEN Return("stopAfter")
                  ELSE pc' = "next" /\ UNCHANGED stopReason
    /\ UNCHANGED <<workflowVars, buildVars, playlistVars, machineVars, current, next, retries, allStates, retrySleeps,
                   intervalSleeps, evalAt>>

AfterEntryNoStopCheck(count, visited) ==
    IF AllVisited(visited)
    THEN Return("all-visited")
    ELSE IF mode = "infinitely"
    THEN pc' = "interval_sleep" /\ UNCHANGED stopReason
    ELSE pc' = "next" /\ UNCHANGED stopReason

AfterEntrySleepsInAllModes(count, visited) ==
    IF StopAfterReached(count)
    THEN Return("stopAfter")
    ELSE IF AllVisited(visited)
    THEN Return("all-visited")
    ELSE pc' = "interval_sleep" /\ UNCHANGED stopReason

\* The end of the loop body, after a state has been entered: the stopAfter
\* stop, the all-visited stop of mode 'any', and in 'infinitely' mode the
\* interval sleep before the next turn.
AfterEntry(count, visited) ==
    IF StopAfterReached(count)
    THEN Return("stopAfter")
    ELSE IF AllVisited(visited)
    THEN Return("all-visited")
    ELSE IF mode = "infinitely"
    THEN pc' = "interval_sleep" /\ UNCHANGED stopReason
    ELSE pc' = "next" /\ UNCHANGED stopReason

PlaylistRunSkipRevisit ==
    /\ pc = "playlist"
    /\ Len(log) < MaxEntries
    /\ log' = IF current \in visitedIdents THEN log ELSE Append(log, current)
    /\ ready' \in BOOLEAN
    /\ transitionsCount' = transitionsCount + 1
    /\ visitedIdents' = visitedIdents \cup {current}
    /\ AfterEntry(transitionsCount', visitedIdents')
    /\ UNCHANGED <<workflowVars, buildVars, playlistVars, machineVars, current, next, retries, allStates, retrySleeps,
                   intervalSleeps, evalAt>>

\* current = resolvedNext; await current.playlist.run(stateData), then the
\* count and the end of the loop body.  The playlist may change stateData; it
\* may throw, and then run rejects.
PlaylistRun ==
    /\ pc = "playlist"
    /\ Len(log) < MaxEntries
    /\ log' = Append(log, current)
    /\ \E threw \in BOOLEAN :
          IF threw
          THEN /\ pc' = "rejected"
               /\ UNCHANGED <<ready, transitionsCount, visitedIdents, stopReason>>
          ELSE /\ ready' \in BOOLEAN
               /\ transitionsCount' = transitionsCount + 1
               /\ visitedIdents' = visitedIdents \cup {current}
               /\ AfterEntry(transitionsCount', visitedIdents')
    /\ UNCHANGED <<workflowVars, buildVars, playlistVars, machineVars, current, next, retries, allStates, retrySleeps,
                   intervalSleeps, evalAt>>

\* await this.sleep(options.interval ?? 1000); the caller may change stateData
\* while the run is suspended.
IntervalSleep ==
    /\ pc = "interval_sleep"
    /\ intervalSleeps' = intervalSleeps + 1
    /\ ready' \in BOOLEAN
    /\ pc' = "next"
    /\ UNCHANGED <<workflowVars, buildVars, playlistVars, machineVars, current, next, retries, transitionsCount,
                   visitedIdents, allStates, log, stopReason, retrySleeps, evalAt>>

EvalNextIgnoresPreventRetry ==
    /\ pc = "next"
    /\ IF IsLeaf(current) /\ StopsOnLeaf(mode)
       THEN /\ Return("leaf")
            /\ UNCHANGED <<current, next, retries, evalAt>>
       ELSE /\ next' = NextOf(current, ready)
            /\ evalAt' = evalAt \cup {[node |-> current, entries |-> transitionsCount,
                                       runs |-> Len(log)]}
            /\ IF next' # NoNode
               THEN Resolved(next') /\ UNCHANGED retries
               ELSE /\ retries' = 0
                    /\ UNCHANGED current
                    /\ IF RetriesExhausted(current, 0)
                       THEN Return("retries-exhausted")
                       ELSE pc' = "retry_sleep" /\ UNCHANGED stopReason
    /\ UNCHANGED <<workflowVars, buildVars, playlistVars, machineVars, transitionsCount, visitedIdents, allStates, log,
                   ready, retrySleeps, intervalSleeps>>

\* The top of the loop: the leaf stop, then current.next(stateData); without a
\* next state the retry-disabled stop and the first test of the retry loop.
EvalNext ==
    /\ pc = "next"
    /\ IF IsLeaf(current) /\ StopsOnLeaf(mode)
       THEN /\ Return("leaf")
            /\ UNCHANGED <<current, next, retries, evalAt>>
       ELSE /\ next' = NextOf(current, ready)
            /\ evalAt' = evalAt \cup {[node |-> current, entries |-> transitionsCount,
                                       runs |-> Len(log)]}
            /\ IF next' # NoNode
               THEN Resolved(next') /\ UNCHANGED retries
               ELSE IF retry[current] = RetryDisabled
               THEN Return("no-transition-no-retry") /\ UNCHANGED <<current, retries>>
               ELSE /\ retries' = 0
                    /\ UNCHANGED current
                    /\ IF RetriesExhausted(current, 0)
                       THEN Return("retries-exhausted")
                       ELSE pc' = "retry_sleep" /\ UNCHANGED stopReason
    /\ UNCHANGED <<workflowVars, buildVars, playlistVars, machineVars, transitionsCount, visitedIdents, allStates, log,
                   ready, retrySleeps, intervalSleeps>>

RetrySleepRerunsPlaylist ==
    /\ pc = "retry_sleep"
    /\ retrySleeps' = Min(retrySleeps + 1, MaxSleeps)
    /\ Len(log) < MaxEntries
    /\ log' = Append(log, current)
    /\ ready' \in BOOLEAN
    /\ next' = NextOf(current, ready')
    /\ evalAt' = evalAt \cup {[node |-> current, entries |-> transitionsCount,
                               runs |-> Len(log)]}
    /\ IF next' # NoNode
       THEN Resolved(next') /\ UNCHANGED retries
       ELSE /\ retries' = Min(retries + 1, MaxRetryLimit + 1)
            /\ UNCHANGED current
            /\ IF RetriesExhausted(current, retries')
               THEN Return("retries-exhausted")
               ELSE pc' = "retry_sleep" /\ UNCHANGED stopReason
    /\ UNCHANGED <<workflowVars, buildVars, playlistVars, machineVars, transitionsCount, visitedIdents, allStates,
                   intervalSleeps>>

\* One turn of the retry loop: await this.sleep(retryDelay), during which the
\* caller may change stateData, then current.next(stateData) again; without a
\* next state retries++ and the test of the loop.  retries is kept up to
\* MaxRetryLimit + 1: no limit compares differently with a larger value.
RetrySleep ==
    /\ pc = "retry_sleep"
    /\ retrySleeps' = Min(retrySleeps + 1, MaxSleeps)
    /\ ready' \in BOOLEAN
    /\ next' = NextOf(current, ready')
    /\ evalAt' = evalAt \cup {[node |-> current, entries |-> transitionsCount,
                               runs |-> Len(log)]}
    /\ IF next' # NoNode
       THEN Resolved(next') /\ UNCHANGED retries
       ELSE /\ retries' = Min(retries + 1, MaxRetryLimit + 1)
            /\ UNCHANGED current
            /\ IF RetriesExhausted(current, retries')
               THEN Return("retries-exhausted")
               ELSE pc' = "retry_sleep" /\ UNCHANGED stopReason
    /\ UNCHANGED <<workflowVars, buildVars, playlistVars, machineVars, transitionsCount, visitedIdents, allStates, log,
                   intervalSleeps>>

Next ==
    \/ RunStart
    \/ PlaylistRunInitial
    \/ PlaylistRun
    \/ IntervalSleep
    \/ EvalNext
    \/ RetrySleep

Spec == Init /\ [][Next]_vars

\* The runs whose termination is examined: those of the machines in which
\* "C" is a leaf.
FairInit == Init /\ transitions["C"] = <<>>

\* The JavaScript event loop resumes every awaited promise that settles: a
\* run that can take a step takes it.
FairSpec == FairInit /\ [][Next]_vars /\ WF_vars(Next)

\* ------------------------------------------- StateNode.next, on its own

\* Transition.weight: undefined or a number.
Weights == {NoWeight, 0, 1, 2}

\* The transitions arrays of a StateNode: every target, condition and weight.
TransitionLists ==
    UNION {[1..n -> [to : Nodes, cond : Conds, weight : Weights]] :
              n \in 0..MaxTransitions}

\* A StateNode "A" with any transitions array, and a stateData; nothing runs.
NextInit ==
    /\ WorkflowIdle
    /\ \E l \in TransitionLists :
          transitions = [n \in Nodes |-> IF n = "A" THEN l ELSE <<>>]
    /\ retry = [m \in Nodes |-> DefaultRetryDelay]
    /\ maxRetries = [m \in Nodes |-> NoLimit]
    /\ initialState = "A"
    /\ mode = "any"
    /\ stopAfter = NoStopAfter
    /\ pc = "idle"
    /\ current = "A"
    /\ next = NoNode
    /\ retries = 0
    /\ transitionsCount = 0
    /\ visitedIdents = {}
    /\ allStates = <<>>
    /\ log = <<>>
    /\ ready \in BOOLEAN
    /\ stopReason = "none"
    /\ retrySleeps = 0
    /\ intervalSleeps = 0
    /\ evalAt = {}
    /\ PlaylistIdle
    /\ Built

\* await node.next(data), called directly on the node.
CallNext ==
    /\ pc = "idle"
    /\ next' = NextOf(current, ready)
    /\ pc' = "returned"
    /\ UNCHANGED <<workflowVars, buildVars, playlistVars, machineVars, current, retries, transitionsCount, visitedIdents,
                   allStates, log, ready, stopReason, retrySleeps, intervalSleeps,
                   evalAt>>

NextNext == CallNext

NextSpec == NextInit /\ [][NextNext]_vars

\* -------------------------------------------------------------- Playlist.run

\* A Machine that is not run.
MachineIdle ==
    /\ transitions = [n \in Nodes |-> <<>>]
    /\ retry = [m \in Nodes |-> DefaultRetryDelay]
    /\ maxRetries = [m \in Nodes |-> NoLimit]
    /\ initialState = "A"
    /\ mode = "any"
    /\ stopAfter = NoStopAfter
    /\ pc = "idle"
    /\ current = NoNode
    /\ next = NoNode
    /\ retries = 0
    /\ transitionsCount = 0
    /\ visitedIdents = {}
    /\ allStates = <<>>
    /\ log = <<>>
    /\ ready = FALSE
    /\ stopReason = "none"
    /\ retrySleeps = 0
    /\ intervalSleeps = 0
    /\ evalAt = {}

RetryDelayOfDefaultOff(o) ==
    IF o.retryDelay = Undefined THEN RetryDisabled ELSE o.retryDelay

\* const { retryDelay = 1000 } = options
RetryDelayOf(o) ==
    IF o.retryDelay = Undefined THEN PlaylistDefaultRetryDelay ELSE o.retryDelay

\* const { maxRetries = false } = options
MaxRetriesOf(o) == IF o.maxRetries = Undefined THEN NoLimit ELSE o.maxRetries

RetriesDisabledNever(o) == FALSE

\* retryDelay === false
RetriesDisabled(o) == RetryDelayOf(o) = RetryDisabled

TaskRetriesExhaustedEarly(r) ==
    MaxRetriesOf(options) # NoLimit /\ r + 1 >= MaxRetriesOf(options)

TaskRetriesExhaustedLate(r) ==
    MaxRetriesOf(options) # NoLimit /\ r > MaxRetriesOf(options)

\* maxRetries !== false && retries >= maxRetries
TaskRetriesExhausted(r) ==
    MaxRetriesOf(options) # NoLimit /\ r >= MaxRetriesOf(options)

\* A call made by run on behalf of bundle index, with the outputs at the
\* time of the call; returned is what the call returned ("none" for sleep and
\* the finalizer) and delay is the argument of sleep (0 in the other calls).
Call(op, returned, delay) ==
    [op |-> op, i |-> index, outputs |-> outputs, returned |-> returned,
     delay |-> delay,
     arg |-> CASE op \in {"builder", "finalizer"} -> source
               [] op \in {"validateInput", "run"} -> input
               [] OTHER -> NoInput]

\* throw
Throw(e) ==
    /\ plPc' = "threw"
    /\ thrown' = e

\* result.error ?? new Error(...): the error of the failed Result, or the
\* error run makes up when the Result carries none.
ErrorOrElse(kind) ==
    IF errorCarried
    THEN [kind |-> "task error", task |-> bundles[index]]
    ELSE [kind |-> kind, task |-> bundles[index]]

ContinueSkipsOne(i) ==
    /\ UNCHANGED thrown
    /\ IF i + 1 <= Len(bundles)
       THEN index' = i + 1 /\ plPc' = "builder"
       ELSE /\ index' = i
            /\ plPc' = IF finalizer THEN "finalizer" ELSE "returned"

\* The for loop goes on at bundle i, or is over: then the finalizer, if any,
\* is awaited, and run returns.
Continue(i) ==
    /\ UNCHANGED thrown
    /\ IF i <= Len(bundles)
       THEN index' = i /\ plPc' = "builder"
       ELSE /\ index' = i
            /\ plPc' = IF finalizer THEN "finalizer" ELSE "returned"

\* A Playlist of any bundles, with or without a finalizer, and the options of
\* a call of run.
PlaylistInit ==
    /\ WorkflowIdle
    /\ MachineIdle
    /\ Built
    /\ bundles \in BundleLists \cup {CollidingBundles}
    /\ finalizer \in BOOLEAN
    /\ options \in OptionsSet
    /\ errorCarried \in BOOLEAN
    /\ plPc = "idle"
    /\ index = 0
    /\ outputs = NoOutputs
    /\ taskResult = "none"
    /\ taskRetries = 0
    /\ calls = <<>>
    /\ thrown = NoError
    /\ source = "s0"
    /\ input = NoInput
    /\ playlists = <<>>

\* run(source, options), up to the for loop.
RunPlaylist ==
    /\ plPc = "idle"
    /\ outputs' = NoOutputs
    /\ Continue(1)
    /\ UNCHANGED <<workflowVars, buildVars, machineVars, runVars, playlists, source, input, bundles, finalizer, options, errorCarried,
                   taskResult, taskRetries, calls>>

SkippedUnrecorded ==
    /\ UNCHANGED outputs
    /\ Continue(index + 1)

\* input === null: outputs[bundle.task.ident] = null; continue
Skipped ==
    /\ outputs' = [outputs EXCEPT ![bundles[index]] = "null"]
    /\ Continue(index + 1)

CallBuilderNoSkip ==
    /\ plPc = "builder"
    /\ \E built \in {"null", "input"} :
          /\ calls' = Append(calls, Call("builder", built, 0))
          /\ input' = IF built = "null" THEN "null" ELSE source
          /\ plPc' = "validate"
          /\ UNCHANGED <<outputs, index, thrown>>
    /\ UNCHANGED <<workflowVars, buildVars, machineVars, runVars, playlists, source, bundles, finalizer, options, errorCarried,
                   taskResult, taskRetries>>

\* const input = bundle.builder(source, outputs), and the skip.  Whether the
\* builder returns null is up to the builder; an input is made of what the
\* source holds at the call.
CallBuilder ==
    /\ plPc = "builder"
    /\ \E built \in {"null", "input"} :
          /\ calls' = Append(calls, Call("builder", built, 0))
          /\ input' = IF built = "null" THEN "null" ELSE source
          /\ IF built = "null"
             THEN Skipped
             ELSE plPc' = "validate" /\ UNCHANGED <<outputs, index, thrown>>
    /\ UNCHANGED <<workflowVars, buildVars, machineVars, runVars, playlists, source, bundles, finalizer, options, errorCarried,
                   taskResult, taskRetries>>

RejectedIgnored == plPc' = "run" /\ UNCHANGED thrown

\* !isValid: throw new Error(`Input validation failed for task '${ident}'`)
Rejected == Throw([kind |-> "validation failed", task |-> bundles[index]])

\* const isValid = await bundle.task.validateInput(input), and the throw.
ValidateInput ==
    /\ plPc = "validate"
    /\ \E isValid \in BOOLEAN :
          /\ calls' = Append(calls, Call("validateInput",
                                         IF isValid THEN "true" ELSE "false", 0))
          /\ IF ~isValid
             THEN Rejected
             ELSE plPc' = "run" /\ UNCHANGED thrown
    /\ UNCHANGED <<workflowVars, buildVars, machineVars, runVars, playlists, source, input, bundles, finalizer, options, errorCarried,
                   index, outputs, taskResult, taskRetries>>

RecordedFirstWins ==
    /\ outputs' = IF outputs[bundles[index]] = "absent"
                  THEN [outputs EXCEPT ![bundles[index]] = taskResult']
                  ELSE outputs
    /\ Continue(index + 1)

RecordedWhateverResult ==
    /\ outputs' = [outputs EXCEPT ![bundles[index]] = taskResult]
    /\ Continue(index + 1)

\* outputs[bundle.task.ident] = result, and the next turn of the for loop.
Recorded ==
    /\ outputs' = [outputs EXCEPT ![bundles[index]] = taskResult']
    /\ Continue(index + 1)

\* let result = await bundle.task.run(input), and the code up to the first
\* sleep of the retry loop.
TaskRun ==
    /\ plPc = "run"
    /\ \E r \in {"success", "failure"} :
          /\ calls' = Append(calls, Call("run", r, 0))
          /\ taskResult' = r
          /\ IF r = "success"
             THEN Recorded /\ UNCHANGED taskRetries
             ELSE IF RetriesDisabled(options)
             THEN /\ Throw(ErrorOrElse("failed and retries are disabled"))
                  /\ UNCHANGED <<outputs, index, taskRetries>>
             ELSE /\ taskRetries' = 0
                  /\ UNCHANGED <<outputs, index>>
                  /\ IF TaskRetriesExhausted(0)
                     THEN Throw(ErrorOrElse("failed after retries"))
                     ELSE plPc' = "retry" /\ UNCHANGED thrown
    /\ UNCHANGED <<workflowVars, buildVars, machineVars, runVars, playlists, source, input, bundles, finalizer, options, errorCarried>>

RetryRebuildsInput ==
    /\ plPc = "retry"
    /\ taskRetries' = taskRetries + 1
    /\ source' \in Sources
    /\ input' = source'
    /\ \E r \in {"success"} \cup
                (IF taskRetries + 1 < MaxFailures THEN {"failure"} ELSE {}) :
          /\ calls' = calls \o <<Call("sleep", "none", RetryDelayOf(options)),
                                  [Call("run", r, 0) EXCEPT !.arg = input']>>
          /\ taskResult' = r
          /\ IF r = "success"
             THEN Recorded
             ELSE /\ UNCHANGED <<outputs, index>>
                  /\ IF TaskRetriesExhausted(taskRetries')
                     THEN Throw(ErrorOrElse("failed after retries"))
                     ELSE plPc' = "retry" /\ UNCHANGED thrown
    /\ UNCHANGED <<workflowVars, buildVars, machineVars, runVars, playlists, bundles, finalizer, options, errorCarried>>

\* One turn of the retry loop: await this.sleep(retryDelay), during which the
\* caller may change the source; retries++; result = await
\* bundle.task.run(input); then the test of the loop.
Retry ==
    /\ plPc = "retry"
    /\ taskRetries' = taskRetries + 1
    /\ source' \in Sources
    /\ \E r \in {"success"} \cup
                (IF taskRetries + 1 < MaxFailures THEN {"failure"} ELSE {}) :
          /\ calls' = calls \o <<Call("sleep", "none", RetryDelayOf(options)),
                                  Call("run", r, 0)>>
          /\ taskResult' = r
          /\ IF r = "success"
             THEN Recorded
             ELSE /\ UNCHANGED <<outputs, index>>
                  /\ IF TaskRetriesExhausted(taskRetries')
                     THEN Throw(ErrorOrElse("failed after retries"))
                     ELSE plPc' = "retry" /\ UNCHANGED thrown
    /\ UNCHANGED <<workflowVars, buildVars, machineVars, runVars, playlists, input, bundles, finalizer, options, errorCarried>>

CallFinalizerTwice ==
    /\ plPc = "finalizer"
    /\ calls' = calls \o <<Call("finalizer", "none", 0), Call("finalizer", "none", 0)>>
    /\ plPc' = "returned"
    /\ UNCHANGED <<workflowVars, buildVars, machineVars, runVars, playlists, source, input, bundles, finalizer, options, errorCarried,
                   index, outputs, taskResult, taskRetries, thrown>>

\* if (this.finalizer) await this.finalizer(source, outputs); return outputs
CallFinalizer ==
    /\ plPc = "finalizer"
    /\ calls' = Append(calls, Call("finalizer", "none", 0))
    /\ plPc' = "returned"
    /\ UNCHANGED <<workflowVars, buildVars, machineVars, runVars, playlists, source, input, bundles, finalizer, options, errorCarried,
                   index, outputs, taskResult, taskRetries, thrown>>

PlaylistNext ==
    \/ RunPlaylist
    \/ CallBuilder
    \/ ValidateInput
    \/ TaskRun
    \/ Retry
    \/ CallFinalizer

PlaylistSpec == PlaylistInit /\ [][PlaylistNext]_vars

\* --------------------- Machine.run with the playlists of the entered states

\* The machines whose playlists are run in detail: a single state, and the
\* machine start -> throwing of the tests, whose transition is always taken.
EntryGraphs ==
    {[n \in Nodes |-> <<>>],
     [n \in Nodes |-> IF n = "A" THEN <<Tr("B", "T", 1)>> ELSE <<>>]}

\* A finalized machine; the initial state has any of the retry settings, and
\* every state has a playlist of the same bundles.
EntryInit ==
    /\ WorkflowIdle
    /\ Built
    /\ transitions \in EntryGraphs
    /\ \E p \in NodePolicies :
          /\ retry = [m \in Nodes |-> IF m = "A" THEN p.retry ELSE DefaultRetryDelay]
          /\ maxRetries = [m \in Nodes |-> IF m = "A" THEN p.maxRetries ELSE NoLimit]
    /\ initialState = "A"
    /\ mode \in Modes
    /\ stopAfter = NoStopAfter
    /\ pc = "idle"
    /\ current = NoNode
    /\ next = NoNode
    /\ retries = 0
    /\ transitionsCount = 0
    /\ visitedIdents = {}
    /\ allStates = <<>>
    /\ log = <<>>
    /\ ready = FALSE
    /\ stopReason = "none"
    /\ retrySleeps = 0
    /\ intervalSleeps = 0
    /\ evalAt = {}
    /\ bundles \in BundleLists
    /\ finalizer \in BOOLEAN
    /\ options = NoOptions
    /\ errorCarried \in BOOLEAN
    /\ plPc = "idle"
    /\ index = 0
    /\ outputs = NoOutputs
    /\ taskResult = "none"
    /\ taskRetries = 0
    /\ calls = <<>>
    /\ thrown = NoError
    /\ source = "s0"
    /\ input = NoInput
    /\ playlists = <<>>

\* current.playlist.run(stateData), for the initial state and in the loop:
\* run of the playlist is called with the state data and nothing else, so its
\* options are {}.
PlaylistRunCall ==
    /\ pc \in {"playlist_initial", "playlist"}
    /\ plPc = "idle"
    /\ options' = NoOptions
    /\ outputs' = NoOutputs
    /\ Continue(1)
    /\ UNCHANGED <<workflowVars, buildVars, machineVars, runVars, playlists, source, input, bundles, finalizer,
                   errorCarried, taskResult, taskRetries, calls>>

\* The call of Playlist.run is over, and its locals are gone.
PlaylistRunOver ==
    /\ plPc' = "idle"
    /\ index' = 0
    /\ outputs' = NoOutputs
    /\ taskResult' = "none"
    /\ taskRetries' = 0
    /\ calls' = <<>>
    /\ input' = NoInput
    /\ UNCHANGED <<bundles, finalizer, options, errorCarried, thrown, playlists, source>>

\* run does not catch what the playlist throws: its promise is rejected.
PlaylistThrew ==
    /\ pc' = "rejected"
    /\ UNCHANGED <<playlistVars, ready, transitionsCount, visitedIdents, stopReason>>

\* The await of the initial state's playlist is over: run rejects with what
\* the playlist threw, or goes on to the count and the loop.
PlaylistRunInitialSettled ==
    /\ pc = "playlist_initial"
    /\ plPc \in {"returned", "threw"}
    /\ log' = Append(log, current)
    /\ IF plPc = "threw"
       THEN PlaylistThrew
       ELSE /\ ready' \in BOOLEAN
            /\ transitionsCount' = 1
            /\ visitedIdents' = visitedIdents \cup {current}
            /\ IF StopAfterReached(1)
               THEN Return("stopAfter")
               ELSE pc' = "next" /\ UNCHANGED stopReason
            /\ PlaylistRunOver
    /\ UNCHANGED <<workflowVars, buildVars, machineVars, current, next, retries, allStates,
                   retrySleeps, intervalSleeps, evalAt>>

PlaylistRunSettledCatches ==
    /\ pc = "playlist"
    /\ plPc \in {"returned", "threw"}
    /\ Len(log) < MaxEntries
    /\ log' = Append(log, current)
    /\ ready' \in BOOLEAN
    /\ transitionsCount' = transitionsCount + 1
    /\ visitedIdents' = visitedIdents \cup {current}
    /\ AfterEntry(transitionsCount', visitedIdents')
    /\ PlaylistRunOver
    /\ UNCHANGED <<workflowVars, buildVars, machineVars, current, next, retries, allStates,
                   retrySleeps, intervalSleeps, evalAt>>

\* The await of the playlist of the state entered in the loop is over: run
\* rejects with what the playlist threw, or goes on to the count and the end
\* of the loop body.
PlaylistRunSettled ==
    /\ pc = "playlist"
    /\ plPc \in {"returned", "threw"}
    /\ Len(log) < MaxEntries
    /\ log' = Append(log, current)
    /\ IF plPc = "threw"
       THEN PlaylistThrew
       ELSE /\ ready' \in BOOLEAN
            /\ transitionsCount' = transitionsCount + 1
            /\ visitedIdents' = visitedIdents \cup {current}
            /\ AfterEntry(transitionsCount', visitedIdents')
            /\ PlaylistRunOver
    /\ UNCHANGED <<workflowVars, buildVars, machineVars, current, next, retries, allStates,
                   retrySleeps, intervalSleeps, evalAt>>

EntryNext ==
    \/ RunStart
    \/ PlaylistRunCall
    \/ CallBuilder
    \/ ValidateInput
    \/ TaskRun
    \/ Retry
    \/ CallFinalizer
    \/ PlaylistRunInitialSettled
    \/ PlaylistRunSettled
    \/ IntervalSleep
    \/ EvalNext
    \/ RetrySleep

EntrySpec == EntryInit /\ [][EntryNext]_vars

\* ------------------------------------- Machine.addState, Machine.finalize

\* The StateNode objects that addState creates, in the order of creation.
ObjectNames == <<"n1", "n2", "n3", "n4">>

Objects == {ObjectNames[k] : k \in 1..Len(ObjectNames)}

\* The idents given to addState; "" is an ident that is missing.
StateIdents == {"", "A", "B"}

\* The idents that a transition names; no state is called "ghost".
TargetIdents == {"A", "B", "ghost"}

\* f, with x mapped to v.
Extend(f, x, v) == [y \in (DOMAIN f) \cup {x} |-> IF y = x THEN v ELSE f[y]]

\* A Machine after Machine.create(): no state, not finalized; no run.
BuildInit ==
    /\ WorkflowIdle
    /\ transitions = <<>>
    /\ identOf = <<>>
    /\ tempTransitions = <<>>
    /\ statesToCreate = <<>>
    /\ initialState = NoNode
    /\ finalized = FALSE
    /\ identAssigned = FALSE
    /\ finalizeError = "none"
    /\ retry = [o \in Objects |-> DefaultRetryDelay]
    /\ maxRetries = [o \in Objects |-> NoLimit]
    /\ mode = "any"
    /\ stopAfter = NoStopAfter
    /\ pc = "idle"
    /\ current = NoNode
    /\ next = NoNode
    /\ retries = 0
    /\ transitionsCount = 0
    /\ visitedIdents = {}
    /\ allStates = <<>>
    /\ log = <<>>
    /\ ready = FALSE
    /\ stopReason = "none"
    /\ retrySleeps = 0
    /\ intervalSleeps = 0
    /\ evalAt = {}
    /\ PlaylistIdle

\* machine.addState(ident, builder, {initial}): a new StateNode is pushed on
\* statesToCreate and, with initial, becomes initialState.
AddState ==
    /\ pc = "idle"
    /\ Cardinality(DOMAIN identOf) < MaxStates
    /\ \E ident \in StateIdents, initial \in BOOLEAN :
          LET node == ObjectNames[Cardinality(DOMAIN identOf) + 1]
          IN  /\ identOf' = Extend(identOf, node, ident)
              /\ transitions' = Extend(transitions, node, <<>>)
              /\ tempTransitions' = Extend(tempTransitions, node, <<>>)
              /\ statesToCreate' = Append(statesToCreate, node)
              /\ initialState' = IF initial THEN node ELSE initialState
    /\ UNCHANGED <<workflowVars, retry, maxRetries, mode, stopAfter, runVars, playlistVars,
                   finalized, identAssigned, finalizeError>>

\* node.addTransition({to, condition, weight}), in the builder of addState or
\* later on the node the builder was given.  A node is given one transition
\* at most between two calls of finalize.
AddTransition ==
    /\ pc = "idle"
    /\ \E node \in DOMAIN identOf, to \in TargetIdents :
          /\ tempTransitions[node] = <<>>
          /\ tempTransitions' =
                 [tempTransitions EXCEPT ![node] = Append(@, Tr(to, "T", 1))]
    /\ UNCHANGED <<workflowVars, machineVars, runVars, playlistVars, statesToCreate, finalized,
                   identOf, identAssigned, finalizeError>>

NothingToFinalizeWithoutStates == statesToCreate = <<>>

\* !this.initialState || this.statesToCreate.length === 0
NothingToFinalize == initialState = NoNode \/ statesToCreate = <<>>

\* The first loop of finalize, from state k of statesToCreate on: the
\* registry by ident, or the error thrown for a missing or duplicate ident.
RECURSIVE RegistryLoop(_, _)
RegistryLoop(k, registry) ==
    IF k > Len(statesToCreate) THEN [error |-> "none", registry |-> registry]
    ELSE LET s == statesToCreate[k]
         IN  IF identOf[s] = ""
             THEN [error |-> "State missing ident.", registry |-> registry]
             ELSE IF identOf[s] \in DOMAIN registry
             THEN [error |-> "Duplicate state ident.", registry |-> registry]
             ELSE RegistryLoop(k + 1, Extend(registry, identOf[s], s))

\* The inner loop of the second loop, from transition k of temps on: the
\* transitions pushed, and the error thrown for a target that is not in the
\* registry.
RECURSIVE ResolveTransitions(_, _, _, _)
ResolveTransitions(temps, k, registry, pushed) ==
    IF k > Len(temps) THEN [error |-> "none", transitions |-> pushed]
    ELSE IF temps[k].to \notin DOMAIN registry
    THEN [error |-> "State not found.", transitions |-> pushed]
    ELSE ResolveTransitions(temps, k + 1, registry,
             Append(pushed, Tr(registry[temps[k].to], temps[k].cond, temps[k].weight)))

\* The second loop of finalize, from state k of statesToCreate on: every
\* state gets transitions = [] and the resolved transitions, and then
\* tempTransitions = undefined; a throw leaves what was assigned before it.
RECURSIVE ResolveLoop(_, _, _, _)
ResolveLoop(k, registry, trans, temps) ==
    IF k > Len(statesToCreate)
    THEN [error |-> "none", transitions |-> trans, tempTransitions |-> temps]
    ELSE LET s == statesToCreate[k]
             r == ResolveTransitions(temps[s], 1, registry, <<>>)
         IN  IF r.error # "none"
             THEN [error |-> r.error,
                   transitions |-> [trans EXCEPT ![s] = r.transitions],
                   tempTransitions |-> temps]
             ELSE ResolveLoop(k + 1, registry,
                              [trans EXCEPT ![s] = r.transitions],
                              [temps EXCEPT ![s] = <<>>])

\* machine.finalize()
Finalize ==
    /\ pc = "idle"
    /\ IF NothingToFinalize
       THEN /\ finalizeError' = "Cannot finalize a machine without an initial state or states to create."
            /\ UNCHANGED <<transitions, tempTransitions, statesToCreate, finalized,
                           identAssigned>>
       ELSE /\ identAssigned' = TRUE
            /\ LET reg == RegistryLoop(1, <<>>)
               IN  IF reg.error # "none"
                   THEN /\ finalizeError' = reg.error
                        /\ UNCHANGED <<transitions, tempTransitions, statesToCreate,
                                       finalized>>
                   ELSE LET res == ResolveLoop(1, reg.registry, transitions,
                                               tempTransitions)
                        IN  /\ transitions' = res.transitions
                            /\ tempTransitions' = res.tempTransitions
                            /\ finalizeError' = res.error
                            /\ IF res.error # "none"
                               THEN UNCHANGED <<statesToCreate, finalized>>
                               ELSE /\ statesToCreate' = <<>>
                                    /\ finalized' = TRUE
    /\ UNCHANGED <<workflowVars, retry, maxRetries, initialState, mode, stopAfter, runVars,
                   playlistVars, identOf>>

\* A machine is built and finalized, and run once; the run is followed up to
\* the playlist of its initial state.
BuildNext ==
    \/ AddState
    \/ AddTransition
    \/ Finalize
    \/ RunStart
    \/ PlaylistRunInitial

BuildSpec == BuildInit /\ [][BuildNext]_vars

\* ------------------------------------------------------------------ Trigger

\* Array.prototype.shift: the array without its first element.
Shift(q) == IF q = <<>> THEN <<>> ELSE Tail(q)

\* EventQueue.push: if (this.queue.length + 1 > this.size) this.queue.shift();
\* this.queue.push(item)
Push(q, size, item) == Append(IF Len(q) + 1 > size THEN Shift(q) ELSE q, item)

\* poll: const event = this.queue.shift(); return event ?? null
PollResult(q) == IF q = <<>> THEN NoEvent ELSE Head(q)

\* Triggers of any capacity, with nothing buffered.
TriggerInit ==
    /\ MachineIdle
    /\ Built
    /\ PlaylistIdle
    /\ queueSize \in [TriggerIdents -> QueueSizes]
    /\ queue = [t \in TriggerIdents |-> <<>>]
    /\ emitted = 0
    /\ polled = <<>>
    /\ workflow = [playlist |-> FALSE, callback |-> FALSE]
    /\ wfPc = "idle"
    /\ wfIndex = 0
    /\ wfEvent = NoEvent
    /\ handled = <<>>
    /\ ticks = 0

\* pushEvent(data), called by a trigger implementation; the data of the
\* events are numbered as they are emitted.
PushEvent ==
    /\ emitted < MaxEvents
    /\ emitted' = emitted + 1
    /\ \E t \in TriggerIdents :
          queue' = [queue EXCEPT ![t] = Push(@, queueSize[t], Event(t, emitted'))]
    /\ UNCHANGED <<machineVars, runVars, playlistVars, buildVars, queueSize, polled,
                   workflow, wfPc, wfIndex, wfEvent, handled, ticks>>

\* A call of poll, with the buffer it found and the event it returned.
Polled(t) == [trigger |-> t, buffered |-> queue[t], event |-> PollResult(queue[t])]

\* trigger.poll()
Poll ==
    /\ Len(polled) < MaxPolls
    /\ \E t \in TriggerIdents :
          /\ polled' = Append(polled, Polled(t))
          /\ queue' = [queue EXCEPT ![t] = Shift(@)]
    /\ UNCHANGED <<machineVars, runVars, playlistVars, buildVars, queueSize, emitted,
                   workflow, wfPc, wfIndex, wfEvent, handled, ticks>>

TriggerNext == PushEvent \/ Poll

TriggerSpec == TriggerInit /\ [][TriggerNext]_vars

\* ----------------------------------------------------------------- Workflow

\* A Workflow of the triggers, with or without a playlist; start is called
\* with or without a callback.
WorkflowInit ==
    /\ MachineIdle
    /\ Built
    /\ PlaylistIdle
    /\ queueSize = [t \in TriggerIdents |-> MaxQueueSize]
    /\ queue = [t \in TriggerIdents |-> <<>>]
    /\ emitted = 0
    /\ polled = <<>>
    /\ workflow \in [playlist : BOOLEAN, callback : BOOLEAN]
    /\ wfPc = "idle"
    /\ wfIndex = 0
    /\ wfEvent = NoEvent
    /\ handled = <<>>
    /\ ticks = 0

\* The for loop of runTick from trigger i on, up to the next await: the
\* triggers are polled in order until one returns an event, for which the
\* playlist is run; after the last trigger the next tick is scheduled.
RECURSIVE PollLoop(_, _, _)
PollLoop(i, q, p) ==
    IF i > Len(Triggers)
    THEN [pc |-> "timer", index |-> i, event |-> NoEvent, queue |-> q, polled |-> p]
    ELSE LET t == Triggers[i]
             event == PollResult(q[t])
             q2 == [q EXCEPT ![t] = Shift(@)]
             p2 == Append(p, [trigger |-> t, buffered |-> q[t], event |-> event])
         IN  IF event # NoEvent
             THEN [pc |-> "run", index |-> i, event |-> event, queue |-> q2,
                   polled |-> p2]
             ELSE PollLoop(i + 1, q2, p2)

\* runTick goes on at trigger i; setTimeout(runTick, interval) after the loop.
PollFrom(i) ==
    LET r == PollLoop(i, queue, polled)
    IN  /\ queue' = r.queue
        /\ polled' = r.polled
        /\ wfPc' = r.pc
        /\ wfIndex' = r.index
        /\ wfEvent' = r.event
        /\ ticks' = IF r.pc = "timer" THEN ticks + 1 ELSE ticks

\* start, up to the awaits of trigger.start(): the throw without a playlist.
WorkflowStart ==
    /\ wfPc = "idle"
    /\ wfPc' = IF workflow.playlist THEN "starting" ELSE "rejected"
    /\ UNCHANGED <<machineVars, runVars, playlistVars, buildVars, queueSize, queue,
                   emitted, polled, workflow, wfIndex, wfEvent, handled, ticks>>

\* runTick, called by start after the triggers are started, or by the timer.
RunTick ==
    /\ \/ wfPc = "starting"
       \/ wfPc = "timer" /\ ticks <= MaxTicks
    /\ PollFrom(1)
    /\ UNCHANGED <<machineVars, runVars, playlistVars, buildVars, queueSize, emitted,
                   workflow, handled>>

\* What became of the run of the playlist for the event of runTick.
Handled(outcome, called, logged) ==
    [event |-> wfEvent, run |-> outcome, callback |-> called, logged |-> logged]

RunSettledPropagates ==
    /\ wfPc = "run"
    /\ \E outcome \in {"returned", "threw"} :
          IF outcome = "threw"
          THEN /\ handled' = Append(handled, Handled("threw", FALSE, FALSE))
               /\ wfPc' = "rejected"
               /\ UNCHANGED <<queue, polled, wfIndex, wfEvent, ticks>>
          ELSE /\ \E callbackThrows \in BOOLEAN :
                     handled' = Append(handled,
                                       Handled("returned", workflow.callback,
                                               workflow.callback /\ callbackThrows))
               /\ PollFrom(wfIndex + 1)
    /\ UNCHANGED <<machineVars, runVars, playlistVars, buildVars, queueSize, emitted,
                   workflow>>

\* The await of this.playlist.run(event, runOptions) is over: the callback, if
\* any, is called with the outputs; what run or the callback throws is caught
\* and logged; then the for loop goes on.
RunSettled ==
    /\ wfPc = "run"
    /\ \E outcome \in {"returned", "threw"} :
          IF outcome = "threw"
          THEN handled' = Append(handled, Handled("threw", FALSE, TRUE))
          ELSE \E callbackThrows \in BOOLEAN :
                  handled' = Append(handled,
                                    Handled("returned", workflow.callback,
                                            workflow.callback /\ callbackThrows))
    /\ PollFrom(wfIndex + 1)
    /\ UNCHANGED <<machineVars, runVars, playlistVars, buildVars, queueSize, emitted,
                   workflow>>

WorkflowNext ==
    \/ PushEvent
    \/ WorkflowStart
    \/ RunTick
    \/ RunSettled

WorkflowSpec == WorkflowInit /\ [][WorkflowNext]_vars

\* ------------------------------------- Playlist.addTask, Playlist.finally

\* The functions given to finally; "none" is Playlist.finalizer undefined.
Finalizers == {"f1", "f2"}

\* new Playlist(bundles, finalizer)
NewPlaylist(bs, f) == [bundles |-> bs, finalizer |-> f]

\* new Playlist(): one Playlist without bundles and without finalizer.
PlaylistBuildInit ==
    /\ WorkflowIdle
    /\ MachineIdle
    /\ Built
    /\ playlists = <<NewPlaylist(<<>>, "none")>>
    /\ bundles = <<>>
    /\ finalizer = FALSE
    /\ options = NoOptions
    /\ errorCarried = TRUE
    /\ plPc = "idle"
    /\ index = 0
    /\ outputs = NoOutputs
    /\ taskResult = "none"
    /\ taskRetries = 0
    /\ calls = <<>>
    /\ thrown = NoError
    /\ source = "s0"
    /\ input = NoInput

AddTaskInPlace ==
    /\ Len(playlists) < MaxPlaylists
    /\ \E p \in 1..Len(playlists), ident \in Idents :
          /\ Len(playlists[p].bundles) < MaxBindings
          /\ playlists' = Append([playlists EXCEPT ![p].bundles = Append(@, ident)],
                                 NewPlaylist(Append(playlists[p].bundles, ident),
                                             playlists[p].finalizer))
    /\ UNCHANGED <<workflowVars, buildVars, machineVars, runVars, source, input, bundles, finalizer,
                   options, errorCarried, plPc, index, outputs, taskResult, taskRetries,
                   calls, thrown>>

\* p.addTask(task).input(builder): a new Playlist of the bundles of p and the
\* new bundle, with the finalizer of p.
AddTask ==
    /\ Len(playlists) < MaxPlaylists
    /\ \E p \in 1..Len(playlists), ident \in Idents :
          /\ Len(playlists[p].bundles) < MaxBindings
          /\ playlists' = Append(playlists,
                                 NewPlaylist(Append(playlists[p].bundles, ident),
                                             playlists[p].finalizer))
    /\ UNCHANGED <<workflowVars, buildVars, machineVars, runVars, source, input, bundles, finalizer,
                   options, errorCarried, plPc, index, outputs, taskResult, taskRetries,
                   calls, thrown>>

\* p.finally(finalizer): this.finalizer = finalizer; return this
Finally ==
    /\ \E p \in 1..Len(playlists), f \in Finalizers :
          playlists' = [playlists EXCEPT ![p].finalizer = f]
    /\ UNCHANGED <<workflowVars, buildVars, machineVars, runVars, source, input, bundles, finalizer,
                   options, errorCarried, plPc, index, outputs, taskResult, taskRetries,
                   calls, thrown>>

PlaylistBuildNext ==
    \/ AddTask
    \/ Finally

PlaylistBuildSpec == PlaylistBuildInit /\ [][PlaylistBuildNext]_vars

\* ------------------------------------------------------------------ claims

\* The machine A <-> B whose conditions are always true.
IsCycleAB ==
    /\ transitions["A"] = <<Tr("B", "T", 1)>>
    /\ transitions["B"] = <<Tr("A", "T", 1)>>

\* The machine A -> B -> C whose conditions are always true; C is a leaf.
IsChainABC ==
    /\ transitions["A"] = <<Tr("B", "T", 1)>>
    /\ transitions["B"] = <<Tr("C", "T", 1)>>
    /\ transitions["C"] = <<>>

\* The run has returned because of a stop that is no mode's stop condition:
\* the stopAfter count, or a node without a next state whose retries are
\* disabled or exhausted.
StoppedByCountOrRetry ==
    stopReason \in {"stopAfter", "no-transition-no-retry", "retries-exhausted"}

\* The states allStates holds.
ReachableIdents == {allStates[i] : i \in 1..Len(allStates)}

IsPrefix(s, t) == Len(s) <= Len(t) /\ s = SubSeq(t, 1, Len(s))

\* C1: in 'leaf' mode a run does not stop because a selected transition
\* resolves to the initial state; when it returns for a mode stop, the
\* current state has no outgoing transition.
C1_LeafModeIgnoresRoundtrip ==
    (mode = "leaf" /\ pc = "done") =>
        /\ stopReason # "roundtrip"
        /\ StoppedByCountOrRetry \/ (current \in Nodes /\ IsLeaf(current))

\* C2: in 'roundtrip' mode a run that ends at a state without outgoing
\* transitions ends there because the retries of that state are disabled or
\* exhausted (or the stopAfter count is reached), never because the state is
\* a leaf.
C2_RoundtripModeIgnoresLeaf ==
    (mode = "roundtrip" /\ pc = "done" /\ current \in Nodes /\ IsLeaf(current)) =>
        StoppedByCountOrRetry

\* C3: in 'roundtrip' mode the run returns as soon as next selects the
\* initial state, and the playlist of the initial state is run once only; on
\* A <-> B the playlists run are those of A and B.
C3_RoundtripStopsAtInitial ==
    mode = "roundtrip" =>
        /\ \A i \in 2..Len(log) : log[i] # initialState
        /\ (pc \notin {"idle", "playlist_initial"} /\ next = initialState) =>
               (pc = "done" /\ stopReason = "roundtrip")
        /\ (IsCycleAB /\ pc = "done" /\ stopAfter = NoStopAfter) => log = <<"A", "B">>

C3_Witness ==
    /\ mode = "roundtrip"
    /\ IsCycleAB
    /\ pc = "done"
    /\ stopReason = "roundtrip"
    /\ log = <<"A", "B">>

\* C4: with a finite stopAfter every run ends, also one that reaches a state
\* with retries enabled, no retry limit and conditions that are never true.
C4_StopAfterTerminates ==
    (stopAfter # NoStopAfter) => <>(pc \in {"done", "rejected"})

\* C5: with stopAfter = k at most k playlists are run, and transitionsCount
\* is the number of playlist runs that completed: it counts the initial
\* entry, grows by one with each entry and by nothing in the retry loop.
C5_StopAfterBoundsEntries ==
    /\ stopAfter # NoStopAfter => Len(log) <= stopAfter
    /\ transitionsCount = Len(log) - (IF pc = "rejected" THEN 1 ELSE 0)

C5_Witness ==
    /\ stopAfter = 2
    /\ retrySleeps >= 1
    /\ pc = "done"
    /\ stopReason = "stopAfter"
    /\ Len(log) = 2

C7_AnyStopsAtFirstOccurrence ==
    [][mode = "any" =>
          /\ (/\ pc \in {"next", "retry_sleep"}
              /\ IsLeaf(current) \/ ReachableIdents \subseteq visitedIdents)
                 => pc' = "done"
          /\ (pc \in {"next", "retry_sleep"} /\ pc' = "playlist")
                 => current' # initialState]_vars

\* C8: in 'infinitely' mode a run returns only on the stopAfter count, or at
\* a state without a satisfied transition whose retries are disabled or whose
\* retry limit is exhausted.
C8_InfinitelyStops ==
    (mode = "infinitely" /\ pc = "done") =>
        \/ /\ stopReason = "stopAfter"
           /\ stopAfter # NoStopAfter
           /\ transitionsCount = stopAfter
        \/ /\ stopReason = "no-transition-no-retry"
           /\ retry[current] = RetryDisabled
           /\ NextOf(current, ready) = NoNode
        \/ /\ stopReason = "retries-exhausted"
           /\ retry[current] # RetryDisabled
           /\ maxRetries[current] # NoLimit
           /\ retries >= maxRetries[current]
           /\ NextOf(current, ready) = NoNode

\* A run in 'infinitely' mode that went back to the initial state, went on
\* to a leaf and ended there.
C8_Witness ==
    /\ mode = "infinitely"
    /\ pc = "done"
    /\ current \in Nodes
    /\ IsLeaf(current)
    /\ \E i \in 2..Len(log) : log[i] = initialState

\* C9: in 'leaf' mode on A -> B -> C the playlists are run in the order A,
\* B, C, each once; the run returns at C for the leaf stop, and next is never
\* called on C and no retry sleep is made.
C9_LeafChain ==
    (IsChainABC /\ mode = "leaf") =>
        /\ retrySleeps = 0
        /\ \A e \in evalAt : e.node # "C"
        /\ IsPrefix(log, <<"A", "B", "C">>)
        /\ (pc = "done" /\ stopAfter = NoStopAfter) =>
               (log = <<"A", "B", "C">> /\ stopReason = "leaf")

C9_Witness ==
    /\ IsChainABC
    /\ mode = "leaf"
    /\ pc = "done"
    /\ stopReason = "leaf"
    /\ log = <<"A", "B", "C">>

\* C10: every call of next is made on the state entered last, after the
\* playlist run of that entry has completed, and every entry has run the
\* playlist once: the playlist runs are as many as the entries.
C10_PlaylistBeforeTransitions ==
    /\ \A e \in evalAt :
          /\ e.entries >= 1
          /\ e.runs = e.entries
          /\ log[e.runs] = e.node
    /\ pc \in {"next", "retry_sleep", "interval_sleep"} =>
          (Len(log) >= 1 /\ log[Len(log)] = current)

C10_Witness ==
    /\ \E e \in evalAt : e.entries = 1 /\ e.node = initialState
    /\ \E e \in evalAt : e.entries = 3

CondTrue(ts, i, data) == CondResult(ts[i].cond, data) = "true"

\* Transition i of ts is, among those whose condition is true, the one of the
\* highest weight (a missing weight counting as 0) and, among those of that
\* weight, the one declared first.
Preferred(ts, i, data) ==
    /\ CondTrue(ts, i, data)
    /\ \A j \in 1..Len(ts) :
          (j # i /\ CondTrue(ts, j, data)) =>
              \/ WeightOf(ts[j]) < WeightOf(ts[i])
              \/ WeightOf(ts[j]) = WeightOf(ts[i]) /\ i < j

\* C12: next returns the target of the transition whose condition is true
\* that comes first by descending weight (a missing weight is 0) and, at
\* equal weight, by declaration order; it returns null when no condition is
\* true or the node has no transition.
C12_NextByWeightThenDeclaration ==
    pc = "returned" =>
        LET ts == transitions[current]
        IN  IF \E i \in 1..Len(ts) : CondTrue(ts, i, ready)
            THEN \E i \in 1..Len(ts) : Preferred(ts, i, ready) /\ next = ts[i].to
            ELSE next = NoNode

C12_Witness ==
    /\ pc = "returned"
    /\ Len(transitions[current]) = 2
    /\ transitions[current][1] = Tr("B", "T", NoWeight)
    /\ transitions[current][2] = Tr("C", "T", 1)
    /\ next = "C"

\* ts, with every condition that throws replaced by async () => false.
ThrowAsFalse(ts) ==
    [k \in 1..Len(ts) |-> [ts[k] EXCEPT !.cond = IF @ = "X" THEN "F" ELSE @]]

\* C13: a condition that throws counts as false for its transition only:
\* next returns a state or null, never the error, and it returns what it
\* returns when every throwing condition is replaced by a false one, so that
\* a true transition of lower weight is still selected.
C13_ThrowingConditionIsFalse ==
    pc = "returned" =>
        /\ next \in Nodes \cup {NoNode}
        /\ next = FirstMatch(Sorted(ThrowAsFalse(transitions[current])), 1, ready)

C13_Witness ==
    /\ pc = "returned"
    /\ Len(transitions[current]) = 2
    /\ transitions[current][1] = Tr("B", "X", 2)
    /\ transitions[current][2] = Tr("C", "T", 1)
    /\ next = "C"

\* The calls of kind op that run has made for bundle i.
CallsOf(op, i) == {k \in 1..Len(calls) : calls[k].op = op /\ calls[k].i = i}

\* The idents that have an entry in the outputs o.
Entries(o) == {id \in Idents : o[id] # "absent"}

\* The idents of the bundles declared before bundle i.
IdentsBefore(i) == {bundles[j] : j \in 1..(i - 1)}

\* C14: run works on the bundles in declaration order: the calls made for a
\* bundle never precede a call made for an earlier one, the builders are
\* called once each in the order 1, 2, ..., and the outputs a builder is
\* called with hold the entries of exactly the bundles declared before it.
C14_DeclarationOrder ==
    /\ \A k, l \in 1..Len(calls) : k < l => calls[k].i <= calls[l].i
    /\ \A i \in 1..Len(bundles) : Cardinality(CallsOf("builder", i)) <= 1
    /\ \A k \in 1..Len(calls) :
          calls[k].op = "builder" =>
              /\ \A j \in 1..(calls[k].i - 1) : CallsOf("builder", j) # {}
              /\ Entries(calls[k].outputs) = IdentsBefore(calls[k].i)

C14_Witness ==
    /\ plPc = "returned"
    /\ bundles = <<"t1", "t2">>
    /\ \E k \in CallsOf("builder", 2) :
          /\ calls[k].outputs["t1"] = "success"
          /\ calls[k].outputs["t2"] = "absent"
    /\ outputs["t2"] = "success"

\* The idents of the bundles.
BundleIdents == {bundles[i] : i \in 1..Len(bundles)}

\* An entry of the returned outputs: a Result or null.
ResultOrNull == {"success", "failure", "null"}

\* C15, as stated: after run has returned, the outputs hold one entry for
\* every bundle, each a Result or null.
C15_OneEntryPerBinding ==
    plPc = "returned" =>
        /\ Cardinality(Entries(outputs)) = Len(bundles)
        /\ \A i \in 1..Len(bundles) : outputs[bundles[i]] \in ResultOrNull

\* C15, amended: after run has returned, the outputs hold one entry for
\* every ident of a bundle and no other entry, each a Result or null: as many
\* entries as bundles when the idents of the bundles are pairwise distinct.
C15_OneEntryPerIdent ==
    plPc = "returned" =>
        /\ Entries(outputs) = BundleIdents
        /\ \A id \in BundleIdents : outputs[id] \in ResultOrNull
        /\ (Cardinality(BundleIdents) = Len(bundles)) =>
               Cardinality(Entries(outputs)) = Len(bundles)

C15_Witness ==
    /\ plPc = "returned"
    /\ bundles = <<"t1", "t2">>
    /\ outputs["t1"] = "null"
    /\ outputs["t2"] = "success"

\* C16: when the builder of bundle i returns null, run calls neither
\* validateInput nor run nor sleep for bundle i, stores null under its ident
\* and goes on with bundle i + 1 (or the end of the loop); the builders of
\* the later bundles are called with null under that ident, as long as no
\* bundle in between has the same ident.
C16_SkipOnNull ==
    \A k \in 1..Len(calls) :
        (calls[k].op = "builder" /\ calls[k].returned = "null") =>
            LET i == calls[k].i
            IN  /\ CallsOf("validateInput", i) = {}
                /\ CallsOf("run", i) = {}
                /\ CallsOf("sleep", i) = {}
                /\ IF k < Len(calls)
                   THEN /\ calls[k + 1].i = i + 1
                        /\ calls[k + 1].op = IF i < Len(bundles) THEN "builder"
                                                                 ELSE "finalizer"
                        /\ calls[k + 1].outputs[bundles[i]] = "null"
                   ELSE /\ index = i + 1
                        /\ outputs[bundles[i]] = "null"
                        /\ plPc = IF i < Len(bundles) THEN "builder"
                                  ELSE IF finalizer THEN "finalizer" ELSE "returned"
                /\ \A l \in (k + 1)..Len(calls) :
                      (/\ calls[l].op = "builder"
                       /\ \A j \in (i + 1)..(calls[l].i - 1) : bundles[j] # bundles[i]) =>
                          calls[l].outputs[bundles[i]] = "null"

C16_Witness ==
    /\ plPc = "returned"
    /\ bundles = <<"t1", "t2">>
    /\ Len(calls) = 4
    /\ calls[1].op = "builder" /\ calls[1].returned = "null"
    /\ calls[2].op = "builder" /\ calls[2].outputs["t1"] = "null"
    /\ outputs["t2"] = "success"

\* C17: when validateInput returns false for a bundle, run throws the error
\* that names its task: that validateInput call is the last call of the run
\* and the only one for the bundle, task.run is not called for the bundle,
\* nothing sleeps for it, and the finalizer is not called.
C17_ValidationFailureAborts ==
    \A k \in 1..Len(calls) :
        (calls[k].op = "validateInput" /\ calls[k].returned = "false") =>
            /\ plPc = "threw"
            /\ thrown = [kind |-> "validation failed", task |-> bundles[calls[k].i]]
            /\ k = Len(calls)
            /\ CallsOf("validateInput", calls[k].i) = {k}
            /\ CallsOf("run", calls[k].i) = {}
            /\ CallsOf("sleep", calls[k].i) = {}
            /\ \A l \in 1..Len(calls) : calls[l].op # "finalizer"
            /\ outputs[bundles[calls[k].i]] = calls[k].outputs[bundles[calls[k].i]]

C17_Witness ==
    /\ plPc = "threw"
    /\ bundles = <<"t1", "t2">>
    /\ finalizer
    /\ thrown = [kind |-> "validation failed", task |-> "t1"]
    /\ Len(calls) = 2

\* The calls of task.run for bundle i that returned a failed Result.
FailuresOf(i) == {k \in CallsOf("run", i) : calls[k].returned = "failure"}

\* run has thrown for a failed Result of the task of the bundle at index.
ThrewForFailure ==
    /\ plPc = "threw"
    /\ thrown.kind \in {"task error", "failed and retries are disabled",
                        "failed after retries"}

\* C18: with retries enabled, a task that has failed N times and then
\* succeeds has been run N + 1 times with N sleeps of the retry delay in
\* between, its successful Result is stored and run goes on; run throws for a
\* failed Result only when there is a limit and the task has failed more
\* often than the limit, so never for N failures under a limit of N or more.
C18_RetriesUntilSuccess ==
    ~RetriesDisabled(options) =>
        /\ \A k \in 1..Len(calls) :
              calls[k].op = "sleep" =>
                  /\ calls[k].delay = RetryDelayOf(options)
                  /\ k < Len(calls)
                  /\ calls[k + 1].op = "run" /\ calls[k + 1].i = calls[k].i
                  /\ calls[k - 1].op = "run" /\ calls[k - 1].returned = "failure"
        /\ \A k \in 1..Len(calls) :
              (calls[k].op = "run" /\ calls[k].returned = "success") =>
                  LET i == calls[k].i
                  IN  /\ Cardinality(CallsOf("run", i)) = Cardinality(FailuresOf(i)) + 1
                      /\ Cardinality(CallsOf("sleep", i)) = Cardinality(FailuresOf(i))
                      /\ \A l \in CallsOf("run", i) : l <= k
                      /\ IF k < Len(calls)
                         THEN /\ calls[k + 1].i = i + 1
                              /\ calls[k + 1].outputs[bundles[i]] = "success"
                         ELSE /\ plPc \in {"builder", "finalizer", "returned"}
                              /\ outputs[bundles[i]] = "success"
        /\ ThrewForFailure =>
              /\ MaxRetriesOf(options) # NoLimit
              /\ Cardinality(FailuresOf(index)) = MaxRetriesOf(options) + 1
              /\ Cardinality(CallsOf("sleep", index)) = MaxRetriesOf(options)

C18_Witness ==
    /\ plPc = "returned"
    /\ bundles = <<"t1">>
    /\ options = [retryDelay |-> GivenRetryDelay, maxRetries |-> 1]
    /\ Len(calls) = 5
    /\ calls[3].op = "run" /\ calls[3].returned = "failure"
    /\ calls[4].op = "sleep" /\ calls[4].delay = GivenRetryDelay
    /\ calls[5].op = "run" /\ calls[5].returned = "success"
    /\ outputs["t1"] = "success"

\* C19: with retryDelay false, the first failed Result of a task makes run
\* throw the error of the Result (the error run makes up when the Result
\* carries none): that call of task.run is the last call of the run, nothing
\* has slept and no task has been run twice.
C19_NoRetryWhenDisabled ==
    options.retryDelay = RetryDisabled =>
        /\ \A k \in 1..Len(calls) : calls[k].op # "sleep"
        /\ \A i \in 1..Len(bundles) : Cardinality(CallsOf("run", i)) <= 1
        /\ plPc # "retry"
        /\ \A k \in 1..Len(calls) :
              (calls[k].op = "run" /\ calls[k].returned = "failure") =>
                  /\ k = Len(calls)
                  /\ plPc = "threw"
                  /\ thrown.task = bundles[calls[k].i]
                  /\ thrown.kind = IF errorCarried THEN "task error"
                                   ELSE "failed and retries are disabled"

C19_Witness ==
    /\ options.retryDelay = RetryDisabled
    /\ errorCarried
    /\ bundles = <<"t1">>
    /\ plPc = "threw"
    /\ thrown = [kind |-> "task error", task |-> "t1"]
    /\ Len(calls) = 3

\* C20: when run is called without options, a failed Result never makes run
\* throw and never lets it return: after a failed Result run is in the retry
\* loop, about to sleep 1000 ms and run the task again, however often the task
\* has failed; run goes on past a bundle only with a successful Result.
C20_DefaultRetriesForever ==
    options = NoOptions =>
        /\ ~ThrewForFailure
        /\ \A k \in 1..Len(calls) :
              calls[k].op = "sleep" => calls[k].delay = PlaylistDefaultRetryDelay
        /\ \A k \in 1..Len(calls) :
              (calls[k].op = "run" /\ calls[k].returned = "failure") =>
                  IF k = Len(calls)
                  THEN plPc = "retry" /\ index = calls[k].i
                  ELSE /\ calls[k + 1].op = "sleep"
                       /\ calls[k + 1].i = calls[k].i
        /\ plPc = "returned" =>
              \A i \in 1..Len(bundles) :
                  CallsOf("run", i) # {} =>
                      \E k \in CallsOf("run", i) :
                          /\ calls[k].returned = "success"
                          /\ \A l \in CallsOf("run", i) : l <= k

C20_Witness ==
    /\ options = NoOptions
    /\ bundles = <<"t1">>
    /\ plPc = "retry"
    /\ Cardinality(FailuresOf(1)) = MaxFailures
    /\ Cardinality(CallsOf("sleep", 1)) = MaxFailures - 1

\* The calls of the finalizer that run has made.
FinalizerCalls == {k \in 1..Len(calls) : calls[k].op = "finalizer"}

AddedIdents == {identOf[o] : o \in DOMAIN identOf}

\* The machine has a configuration error: no initial node, no node to
\* create, a node without ident, two nodes of one ident, or a transition of
\* a node to create that names no node.
ConfigurationError ==
    \/ initialState = NoNode
    \/ statesToCreate = <<>>
    \/ \E k \in 1..Len(statesToCreate) : identOf[statesToCreate[k]] = ""
    \/ \E k, l \in 1..Len(statesToCreate) :
          k # l /\ identOf[statesToCreate[k]] = identOf[statesToCreate[l]]
    \/ \E k \in 1..Len(statesToCreate) :
          \E j \in 1..Len(tempTransitions[statesToCreate[k]]) :
              tempTransitions[statesToCreate[k]][j].to \notin AddedIdents

\* The step is a call of finalize (it is none of addState, addTransition and
\* the steps of run).
FinalizeStep ==
    /\ pc = "idle" /\ pc' = "idle"
    /\ identOf' = identOf
    /\ \A o \in DOMAIN identOf : Len(tempTransitions'[o]) <= Len(tempTransitions[o])

\* C22: a call of finalize on a machine with a configuration error throws
\* and leaves finalized as it was, so a machine that was not finalized stays
\* so; run on a machine that is not finalized rejects before any playlist is
\* run and before any state is entered.
C22_ConfigurationErrorsAreFatal ==
    /\ [][(FinalizeStep /\ ConfigurationError) =>
              (finalizeError' # "none" /\ finalized' = finalized)]_vars
    /\ []((~finalized /\ pc # "idle") =>
              /\ pc = "rejected"
              /\ stopReason = "Cannot run a machine that is not finalized."
              /\ current = NoNode
              /\ log = <<>>)

C22_Witness ==
    /\ ~finalized
    /\ finalizeError = "Duplicate state ident."
    /\ initialState = "n1"
    /\ pc = "rejected"
    /\ log = <<>>

\* The nodes that a run traverses: those of getAllStates.
TraversedNodes == {GetAllStates[k] : k \in 1..Len(GetAllStates)}

\* C23: once the machine is finalized, no step changes the initial node or
\* the transitions of a node that a run traverses.
C23_GraphFixedAfterFinalize ==
    [][finalized =>
          /\ initialState' = initialState
          /\ \A o \in TraversedNodes : transitions'[o] = transitions[o]]_vars

\* C24: no step of run changes the graph of the machine: the nodes and
\* their idents, the transitions of every node with their targets, conditions
\* and weights, the retry settings of every node, the initial node and the
\* finalized flag.
C24_RunLeavesGraphUnchanged ==
    [][UNCHANGED <<identOf, transitions, retry, maxRetries, initialState,
                   finalized, statesToCreate, tempTransitions>>]_vars

C24_Witness ==
    /\ pc = "done"
    /\ finalized
    /\ IsChainABC
    /\ mode = "any"
    /\ log = <<"A", "B", "C">>
    /\ initialState = "A"

\* C25: a step that makes a Playlist leaves every Playlist there was as it
\* was, and the new one has the bundles of one of them, the receiver,
\* followed by one more bundle; no step changes the bundles of a Playlist.
C25_AddTaskReturnsNewPlaylist ==
    [][/\ \A p \in 1..Len(playlists) : playlists'[p].bundles = playlists[p].bundles
       /\ Len(playlists') # Len(playlists) =>
             /\ Len(playlists') = Len(playlists) + 1
             /\ \E p \in 1..Len(playlists), ident \in Idents :
                   playlists'[Len(playlists')].bundles =
                       Append(playlists[p].bundles, ident)]_vars

C25_Witness ==
    /\ Len(playlists) = 3
    /\ playlists[1].bundles = <<>>
    /\ playlists[2].bundles = <<"t1">>
    /\ playlists[3].bundles = <<"t1", "t2">>

\* Every condition of the machine is async () => true.
AlwaysSatisfied ==
    \A n \in Nodes : \A k \in 1..Len(transitions[n]) : transitions[n][k].cond = "T"

\* C26: in the modes 'leaf', 'roundtrip' and 'any' run never sleeps the
\* interval, and when every condition of the machine is always true it does
\* not sleep at all; the interval sleep is made in 'infinitely' mode only.
C26_IntervalSleepOnlyInfinitely ==
    /\ mode # "infinitely" =>
          /\ intervalSleeps = 0
          /\ pc # "interval_sleep"
          /\ AlwaysSatisfied => (retrySleeps = 0 /\ pc # "retry_sleep")
    /\ (intervalSleeps > 0 \/ pc = "interval_sleep") => mode = "infinitely"

C26_Witness ==
    /\ mode = "roundtrip"
    /\ IsCycleAB
    /\ pc = "done"
    /\ log = <<"A", "B">>
    /\ intervalSleeps = 0
    /\ retrySleeps = 0

\* The machine of the retry limit tests: A, with a retry limit, has one
\* transition, whose condition is always false.
IsStalledWithLimit ==
    /\ transitions["A"] = <<Tr("B", "F", 1)>>
    /\ retry["A"] # RetryDisabled
    /\ maxRetries["A"] # NoLimit

\* C27: at a node with retry limit L run is about to sleep only while it has
\* made fewer than L retries there, so with L = 0 never; a run that ends for
\* the exhausted limit has returned, not thrown, at the node entered last,
\* after L retries; on the machine of the tests it has slept L times and run
\* the playlist of A only.
C27_RetryLimit ==
    /\ (pc = "retry_sleep" /\ maxRetries[current] # NoLimit) =>
          (retries < maxRetries[current] /\ retry[current] # RetryDisabled)
    /\ stopReason = "retries-exhausted" =>
          /\ pc = "done"
          /\ maxRetries[current] # NoLimit
          /\ retries = maxRetries[current]
          /\ NextOf(current, ready) = NoNode
          /\ log[Len(log)] = current
    /\ (IsStalledWithLimit /\ pc = "done" /\ stopReason # "stopAfter") =>
          /\ stopReason = "retries-exhausted"
          /\ retrySleeps = maxRetries["A"]
          /\ log = <<"A">>

C27_Witness ==
    /\ IsStalledWithLimit
    /\ maxRetries["A"] = 1
    /\ pc = "done"
    /\ stopReason = "retries-exhausted"
    /\ retrySleeps = 1
    /\ log = <<"A">>

\* The run goes on from a transition to node n: it returns for the roundtrip
\* stop, or n becomes the current node and its playlist is awaited.
EntersTarget(n) ==
    IF n = initialState /\ mode # "infinitely"
    THEN pc' = "done" /\ stopReason' = "roundtrip" /\ current' = current
    ELSE pc' = "playlist" /\ current' = n /\ stopReason' = stopReason

\* The playlist of the current node is run, and if it does not throw the
\* entry is counted and the stopAfter stop is taken when reached.
EntryStep ==
    /\ log' = Append(log, current)
    /\ pc' # "rejected" =>
          /\ transitionsCount' = transitionsCount + 1
          /\ visitedIdents' = visitedIdents \cup {current}
          /\ (stopAfter # NoStopAfter /\ transitionsCount' >= stopAfter) =>
                (pc' = "done" /\ stopReason' = "stopAfter")

\* C28: a turn of the retry loop evaluates next of the stalled node again and
\* runs no playlist and counts no entry; if the evaluation yields a
\* transition the run goes on as it does from a transition found at the
\* first evaluation: the roundtrip stop, or the target's playlist run, its
\* entry counted and the stopAfter stop checked.
C28_RetryReevaluatesNextOnly ==
    [][/\ pc = "retry_sleep" =>
            /\ log' = log
            /\ transitionsCount' = transitionsCount
            /\ visitedIdents' = visitedIdents
            /\ [node |-> current, entries |-> transitionsCount, runs |-> Len(log)]
                  \in evalAt'
            /\ IF NextOf(current, ready') = NoNode
               THEN current' = current /\ pc' \in {"retry_sleep", "done"}
               ELSE EntersTarget(NextOf(current, ready'))
       /\ (pc = "next" /\ pc' # "done" /\ NextOf(current, ready) # NoNode) =>
            EntersTarget(NextOf(current, ready))
       /\ pc = "playlist" => EntryStep]_vars

\* The run of the test: A stalled, a retry found the transition to B, and B
\* was entered.
C28_Witness ==
    /\ transitions["A"] = <<Tr("B", "R", 1)>>
    /\ transitions["B"] = <<>>
    /\ mode = "any"
    /\ retrySleeps = 1
    /\ log = <<"A", "B">>
    /\ transitionsCount = 2
    /\ pc = "done"

\* C29: while Machine.run runs the playlist of a state that has
\* preventRetry(), no task is retried: the playlist never sleeps, and no task
\* is run a second time.
C29_PreventRetryCoversPlaylist ==
    (current # NoNode /\ pc \in {"playlist_initial", "playlist"}) =>
        (retry[current] = RetryDisabled =>
            /\ plPc # "retry"
            /\ \A k \in 1..Len(calls) : calls[k].op # "sleep"
            /\ \A i \in 1..Len(bundles) : Cardinality(CallsOf("run", i)) <= 1)

\* C30: when the playlist of the state that run has entered throws, run
\* rejects, with what the playlist threw, without evaluating a transition,
\* entering a state or counting the entry; a rejected run takes no further
\* step.
C30_PlaylistThrowRejectsRun ==
    [][/\ (pc \in {"playlist_initial", "playlist"} /\ plPc = "threw") =>
            /\ pc' = "rejected"
            /\ thrown' = thrown
            /\ current' = current
            /\ evalAt' = evalAt
            /\ transitionsCount' = transitionsCount
            /\ visitedIdents' = visitedIdents
       /\ pc = "rejected" => FALSE]_vars

\* The run of the test: start was entered, its transition taken, and the
\* playlist of the second state threw.
C30_Witness ==
    /\ transitions["A"] = <<Tr("B", "T", 1)>>
    /\ mode = "any"
    /\ pc = "rejected"
    /\ plPc = "threw"
    /\ thrown = [kind |-> "validation failed", task |-> "t1"]
    /\ current = "B"
    /\ log = <<"A", "B">>
    /\ transitionsCount = 1

\* The calls of bundle.builder made before call k.
BuilderCallsBefore(k) == {b \in 1..(k - 1) : calls[b].op = "builder"}

\* The last call of bundle.builder made before call k.
LastBuilderBefore(k) ==
    CHOOSE b \in BuilderCallsBefore(k) : \A c \in BuilderCallsBefore(k) : c <= b

\* C31: every call of task.run, first attempt or retry, follows one call of
\* the builder of its bundle and one call of validateInput, made before the
\* first attempt, and is given the input that this builder call made, whatever
\* the source holds by the time of the call; between the attempts only sleep
\* is called.
C31_RetriesReuseInput ==
    \A k \in 1..Len(calls) :
        calls[k].op = "run" =>
            /\ BuilderCallsBefore(k) # {}
            /\ LET b == LastBuilderBefore(k)
               IN  /\ calls[b].i = calls[k].i
                   /\ calls[b].returned # "null"
                   /\ calls[k].arg = calls[b].arg
                   /\ calls[b + 1].op = "validateInput"
                   /\ calls[b + 1].arg = calls[k].arg
                   /\ \A j \in (b + 2)..(k - 1) : calls[j].op \in {"run", "sleep"}

\* A task failed, the source changed during the sleep, and the retry was given
\* the input built before the first attempt.
C31_Witness ==
    /\ source = "s1"
    /\ Len(calls) >= 5
    /\ calls[Len(calls)].op = "run"
    /\ calls[Len(calls)].arg = "s0"
    /\ calls[Len(calls) - 1].op = "sleep"

\* Task.run of bundle i has been called, and has failed every time.
AlwaysFailed(i) == CallsOf("run", i) # {} /\ CallsOf("run", i) = FailuresOf(i)

\* C32: with retries enabled and a limit of L retries, a task that fails every
\* time is run at most L + 1 times, with a sleep before every run but the
\* first; after fewer runs Playlist.run is about to sleep and run it again,
\* and after the run L + 1 it has thrown the error of the task, or the error
\* it makes up for the task when the failed Result carries none.  With L = 0
\* the first failure is the last call of the run.
C32_ThrowsAfterLimit ==
    (~RetriesDisabled(options) /\ MaxRetriesOf(options) # NoLimit) =>
        \A i \in 1..Len(bundles) :
            AlwaysFailed(i) =>
                LET n == Cardinality(CallsOf("run", i))
                    L == MaxRetriesOf(options)
                IN  /\ n <= L + 1
                    /\ Cardinality(CallsOf("sleep", i)) = n - 1
                    /\ index = i
                    /\ n < L + 1 => plPc = "retry"
                    /\ n = L + 1 =>
                          /\ plPc = "threw"
                          /\ thrown.task = bundles[i]
                          /\ thrown.kind = IF errorCarried THEN "task error"
                                           ELSE "failed after retries"
                          /\ calls[Len(calls)].op = "run"
                          /\ calls[Len(calls)].i = i

\* The run of the test without an error: the limit is MaxRetryLimit, the task
\* has failed once more than that, and run has thrown the made-up error.
C32_Witness ==
    /\ options = [retryDelay |-> GivenRetryDelay, maxRetries |-> MaxRetryLimit]
    /\ bundles = <<"t1">>
    /\ ~errorCarried
    /\ AlwaysFailed(1)
    /\ Cardinality(CallsOf("sleep", 1)) = MaxRetryLimit
    /\ plPc = "threw"
    /\ thrown = [kind |-> "failed after retries", task |-> "t1"]

\* The targets of the transitions of the nodes of S.
TargetsOf(S) == UNION {{transitions[n][k].to : k \in 1..Len(transitions[n])} : n \in S}

\* The nodes that a path of transitions leads to from a node of S, S included.
RECURSIVE ReachableFrom(_)
ReachableFrom(S) ==
    IF TargetsOf(S) \subseteq S THEN S ELSE ReachableFrom(S \cup TargetsOf(S))

\* C33: the states that run has gathered at its start are the states that a
\* path of transitions leads to from the initial state, the initial state
\* first and no state twice, on every graph of the model, those with cycles
\* and parallel transitions included.
C33_AllStatesAreTheReachable ==
    pc # "idle" =>
        /\ ReachableIdents = ReachableFrom({initialState})
        /\ Len(allStates) = Cardinality(ReachableIdents)
        /\ allStates[1] = initialState

\* The machine of the test, with two transitions from start to loop.
C33_Witness ==
    /\ transitions = ParallelEdgesGraph
    /\ pc = "done"
    /\ allStates = <<"A", "B">>

\* What the run has stored for bundle i: null when its builder returned null,
\* the Result of its task when the task succeeded; "absent" before that.
StoredFor(i) ==
    IF \E k \in CallsOf("builder", i) : calls[k].returned = "null" THEN "null"
    ELSE IF \E k \in CallsOf("run", i) : calls[k].returned = "success" THEN "success"
    ELSE "absent"

\* The bundles before bundle m whose task has ident id.
BundlesBefore(m, id) == {j \in 1..(m - 1) : bundles[j] = id}

\* The entry under id after the bundles before bundle m: that of the last of
\* them with this ident.
EntryBefore(m, id) ==
    IF BundlesBefore(m, id) = {} THEN "absent"
    ELSE StoredFor(CHOOSE j \in BundlesBefore(m, id) :
                       \A l \in BundlesBefore(m, id) : l <= j)

\* C34: with bundles that share an ident, run throws for a failed validation
\* or a failed task only; every builder and the finalizer is called with, and
\* the caller is returned, under each ident the entry of the last bundle of
\* that ident declared so far: a later bundle overwrites the entry of an
\* earlier one, and a bundle between the two sees the earlier entry.
C34_LastBundleOfAnIdentWins ==
    /\ plPc = "threw" =>
          /\ calls[Len(calls)].op \in {"validateInput", "run"}
          /\ calls[Len(calls)].returned \in {"false", "failure"}
    /\ \A k \in 1..Len(calls) : \A id \in Idents :
          /\ calls[k].op = "builder" =>
                calls[k].outputs[id] = EntryBefore(calls[k].i, id)
          /\ calls[k].op = "finalizer" =>
                calls[k].outputs[id] = EntryBefore(Len(bundles) + 1, id)
    /\ plPc = "returned" =>
          \A id \in Idents : outputs[id] = EntryBefore(Len(bundles) + 1, id)

\* The first bundle of t1 was skipped, the bundle of t2 between the two saw
\* null under t1, and the second bundle of t1 stored its Result there.
C34_Witness ==
    /\ bundles = CollidingBundles
    /\ plPc = "returned"
    /\ \E k \in CallsOf("builder", 2) : calls[k].outputs["t1"] = "null"
    /\ StoredFor(3) = "success"
    /\ outputs["t1"] = "success"

\* C35: no step changes the finalizer of a Playlist there is: finally leaves
\* its receiver with the finalizer it had, or with none, and only a Playlist
\* made by the step carries the new finalizer.
C35_FinallyLeavesReceiver ==
    [][\A p \in 1..Len(playlists) :
          playlists'[p].finalizer = playlists[p].finalizer]_vars

\* The buffer of trigger t holds events tagged t, in the order of emission.
BufferInOrder(t) ==
    \A k \in 1..Len(queue[t]) :
        /\ queue[t][k].triggerIdent = t
        /\ k > 1 => queue[t][k - 1].data < queue[t][k].data

\* Every call of poll has returned null on an empty buffer and otherwise the
\* first buffered event, tagged with the ident of the trigger; the events a
\* trigger has returned are in the order of emission.
PollsInOrder ==
    \A k \in 1..Len(polled) :
        /\ polled[k].event = IF polled[k].buffered = <<>> THEN NoEvent
                             ELSE polled[k].buffered[1]
        /\ polled[k].event # NoEvent => polled[k].event.triggerIdent = polled[k].trigger
        /\ \A l \in (k + 1)..Len(polled) :
              (/\ polled[l].trigger = polled[k].trigger
               /\ polled[k].event # NoEvent
               /\ polled[l].event # NoEvent) =>
                  polled[k].event.data < polled[l].event.data

\* A step that changes the buffer of trigger t is a pushEvent that appends the
\* new event, after dropping the oldest one when the buffer holds queueSize
\* events, or a poll that takes the oldest event.
BufferStep(t) ==
    IF emitted' # emitted
    THEN IF Len(queue[t]) < queueSize[t]
         THEN queue'[t] = Append(queue[t], Event(t, emitted'))
         ELSE /\ queue[t] # <<>>
              /\ queue'[t] = Append(Tail(queue[t]), Event(t, emitted'))
    ELSE /\ queue[t] # <<>>
         /\ queue'[t] = Tail(queue[t])

\* C36: the buffer of a trigger never holds more than queueSize events; a
\* pushEvent on a full buffer drops the oldest event; poll returns the
\* buffered events in the order of emission, tagged with the ident of the
\* trigger, and null when the buffer is empty.
C36_BoundedQueue ==
    /\ [](\A t \in TriggerIdents : Len(queue[t]) <= queueSize[t] /\ BufferInOrder(t))
    /\ []PollsInOrder
    /\ [][\A t \in TriggerIdents : queue'[t] # queue[t] => BufferStep(t)]_vars

\* The polls that the step has made.
NewPolls == Len(polled') - Len(polled)

\* C37: when the run of the playlist for a polled event throws, the callback
\* is not called for that event and the error is logged; the for loop goes
\* on in the same step: the triggers after the one of the event are polled in
\* order up to the first that has an event, for which the playlist is run, and
\* when none has one the next tick is scheduled.  The loop never ends for a
\* playlist that throws.
C37_FaultyEventDoesNotKillLoop ==
    [][(wfPc = "run" /\ handled' # handled) =>
          /\ Len(handled') = Len(handled) + 1
          /\ handled'[Len(handled')].event = wfEvent
          /\ handled'[Len(handled')].run = "threw" =>
                /\ ~handled'[Len(handled')].callback
                /\ handled'[Len(handled')].logged
                /\ wfPc' \in {"run", "timer"}
                /\ \A k \in 1..NewPolls :
                      /\ polled'[Len(polled) + k].trigger = Triggers[wfIndex + k]
                      /\ k < NewPolls => polled'[Len(polled) + k].event = NoEvent
                /\ wfPc' = "run" =>
                      /\ NewPolls >= 1
                      /\ wfEvent' = polled'[Len(polled')].event
                      /\ wfEvent' # NoEvent
                      /\ wfIndex' = wfIndex + NewPolls
                      /\ ticks' = ticks
                /\ wfPc' = "timer" =>
                      /\ wfIndex + NewPolls = Len(Triggers)
                      /\ NewPolls >= 1 => polled'[Len(polled')].event = NoEvent
                      /\ ticks' = ticks + 1]_vars

\* The playlist threw for the first event; in a later tick the playlist was
\* run for the second event, and the callback was called.
C37_Witness ==
    /\ Len(handled) = 2
    /\ handled[1].run = "threw"
    /\ handled[2].run = "returned"
    /\ handled[2].callback
    /\ handled[1].event.data < handled[2].event.data
    /\ ticks >= 2

C39_FinalizeAllOrNothing ==
    [][(FinalizeStep /\ finalizeError' # "none") =>
          /\ tempTransitions' = tempTransitions
          /\ transitions' = transitions
          /\ statesToCreate' = statesToCreate]_vars

====
